---- MODULE Spec2Model ----
(***************************************************************************)
(* Edge instance of the streaming chat backend.                            *)
(*                                                                         *)
(*   buffer.Manager   (backend/internal/buffer/buffer.go)  reorder buffers *)
(*   sse.Manager      (backend/internal/sse/manager.go)    stream registry *)
(*   handlers.Handler (HandleResponseChunk, HandleSSE)     ingest loop     *)
(*   main             (bus subscriptions, sweeper)                         *)
(*                                                                         *)
(* Every method that runs under one lock acquisition is one action.  The   *)
(* ingest loop is a small program counter per bus subscription, because    *)
(* the locks are released between AddChunk, GetNextChunks, each snapshot   *)
(* of SendToSession, each writeEvent and FinalizeMessage.                  *)
(***************************************************************************)
EXTENDS Integers, Sequences, FiniteSets, TLC

VARIABLES
    now,          \* wall clock read by time.Now()
    producer,     \* per message: the sequence number the producer marks is_final
    delivered,    \* number of fragments the bus has handed to a callback
    buffers,      \* buffer.Manager.buffers : message id -> *ChunkBuffer
    connections,  \* sse.Manager.connections : connection id -> *Connection
    sessions,     \* sse.Manager.sessions : session id -> []*Connection
    handler,      \* one HandleResponseChunk invocation per bus subscription
    http,         \* position of each HandleSSE request
    sent,         \* frames written to each Connection.Writer, in order
    arrivals,     \* per message: the fragments handed to AddChunk, in order,
                  \* each with what became of it
    present,      \* per message: streams registered since before its first fragment
    messages,     \* Messages returned by FinalizeMessage, in order, each with
                  \* the fragments it was assembled from
    wire,         \* the clients' side of the streams: those whose writes fail,
                  \* those whose writes block, those on which a write failed
    pinger,       \* the SendHeartbeat call in progress
    redis,        \* the session directory, and each HandleSSE's calls to it
    web,          \* requests published on the bus and HTTP responses written
    main,         \* position of main, and the teardown steps it has taken
    lookup,       \* the markers of one session's set in the directory, and
                  \* the outcome of the last GetActivePods on it
    locks         \* buffer.Manager.mu and each ChunkBuffer.mu, and the position
                  \* of each method of the manager between its lock calls

\* what the ingest loop and the stream registry leave alone
ext == <<wire, pinger, redis, web, main, lookup, locks>>

vars == <<now, producer, delivered, buffers, connections, sessions, handler,
          http, sent, arrivals, present, messages, wire, pinger, redis, web,
          main, lookup, locks>>

(* Bounds of the model *)

MaxSeq == 2          \* largest sequence number a producer marks is_final
MaxDeliveries == 3   \* fragments the bus delivers in one run
MaxTime == 3         \* last reading of the clock
MaxStreams == 1      \* streams opened in the runs of Spec and SpecConcurrent
MaxConns == 2        \* streams opened in the runs of SpecFanout
MaxFrames == 2       \* frames on a stream beyond which no further ping is recorded
MaxRequests == 2     \* requests answered in the runs of SpecHTTP
MaxArrivals == 4     \* fragments the bus delivers in the runs of SpecLimits
MaxMarkers == 2      \* markers in a session's set of the directory
MaxCalls == 1        \* calls of each method of the manager in the runs of SpecLocks

(* Configuration (config.Load, config.go 96-100), scaled down from the     *)
(* defaults to the size of the model; durations in ticks of the clock      *)

MaxBuffersPerPod == 2
MaxChunksPerBuffer == 3
MaxBufferAge == 2
MissingChunkTimeout == 1

Messages == {"m1", "m2", "m3"}
Sessions == {"s1", "s2"}
ConnIDs == 1..MaxConns
Subs == {"direct", "broadcast"}

\* the messages the producer streams, and the sessions clients subscribe to
Streaming == {"m1"}
Subscribed == {"s1"}

SessionOf(m) == IF m = "m1" THEN "s1" ELSE "s2"

NoBuffer == [MessageID |-> ""]
NoChunk == [MessageID |-> ""]
NoEvent == [Event |-> ""]
NilConn == 0
ZeroTime == -1 - MaxBufferAge

\* Payload text of the fragment with sequence seq; text is a sequence of characters
Payload(seq) == <<seq>>

\* models.ResponseChunk as the bus callback decodes it.  Every delivery is
\* decoded into a ResponseChunk of its own (nats 925, 956) and the buffer
\* and the events hold its address: ptr tells the deliveries of one
\* message apart, also those that carry equal fields.
Fragment(m, seq, final, ptr) ==
    [SessionID |-> SessionOf(m), MessageID |-> m, ChunkID |-> seq,
     Chunk |-> Payload(seq), ChunkType |-> "content", IsFinal |-> (seq = final),
     ptr |-> ptr]

\* models.ResponseChunk.ChunkType (models 559-567)
ChunkTypes == {"content", "metadata", "error", "system"}

\* A payload for the same sequence that differs from Payload(seq)
OtherPayload(seq) == <<seq, seq>>

\* A fragment of any type; retold says that its text is not the one the
\* producer sent first under this sequence
TypedFragment(m, seq, final, ptr, type, retold) ==
    [Fragment(m, seq, final, ptr) EXCEPT
        !.ChunkType = type,
        !.Chunk = IF retold THEN OtherPayload(seq) ELSE Payload(seq)]

(* buffer.Manager *)

\* A count of the buffers that have not seen is_final only, for comparison
GetBufferCountIncomplete(bufs) ==
    Cardinality({m \in Messages : bufs[m] # NoBuffer /\ ~bufs[m].IsFinal})

GetBufferCount(bufs) == Cardinality({m \in Messages : bufs[m] # NoBuffer})

NewChunkBuffer(chunk, t) ==
    [SessionID |-> chunk.SessionID, MessageID |-> chunk.MessageID,
     Chunks |-> <<>>, MaxChunkID |-> 0, NextToSend |-> 0, IsFinal |-> FALSE,
     FinalChunkID |-> 0, UpdatedAt |-> ZeroTime]

\* A StoreChunk that does not track the largest sequence, for comparison
StoreChunkUntracked(buffer, chunk, t) ==
    [buffer EXCEPT
        !.Chunks = [s \in (DOMAIN buffer.Chunks) \cup {chunk.ChunkID} |->
                        IF s = chunk.ChunkID THEN chunk ELSE buffer.Chunks[s]],
        !.UpdatedAt = t,
        !.IsFinal = IF chunk.IsFinal THEN TRUE ELSE @,
        !.FinalChunkID = IF chunk.IsFinal THEN chunk.ChunkID ELSE @]

\* buffer.go 94-107: store the chunk and update the counters
StoreChunk(buffer, chunk, t) ==
    [buffer EXCEPT
        !.Chunks = [s \in (DOMAIN buffer.Chunks) \cup {chunk.ChunkID} |->
                        IF s = chunk.ChunkID THEN chunk ELSE buffer.Chunks[s]],
        !.UpdatedAt = t,
        !.MaxChunkID = IF chunk.ChunkID > @ THEN chunk.ChunkID ELSE @,
        !.IsFinal = IF chunk.IsFinal THEN TRUE ELSE @,
        !.FinalChunkID = IF chunk.IsFinal THEN chunk.ChunkID ELSE @]

\* An AddChunk without the duplicate test of buffer.go 83-92, for comparison
AddChunkOverwriting(bufs, chunk, t) ==
    IF GetBufferCount(bufs) >= MaxBuffersPerPod
    THEN [buffers |-> bufs, err |-> "buffer limit reached"]
    ELSE LET m == chunk.MessageID
             buffer == IF bufs[m] # NoBuffer THEN bufs[m] ELSE NewChunkBuffer(chunk, t)
         IN  IF Cardinality(DOMAIN buffer.Chunks) >= MaxChunksPerBuffer
             THEN [buffers |-> [bufs EXCEPT ![m] = buffer], err |-> "chunk limit reached"]
             ELSE [buffers |-> [bufs EXCEPT ![m] = StoreChunk(buffer, chunk, t)],
                   err |-> ""]

\* An AddChunk without the pod limit of buffer.go 56-59, for comparison
AddChunkAnyNumber(bufs, chunk, t) ==
    LET m == chunk.MessageID
        buffer == IF bufs[m] # NoBuffer THEN bufs[m] ELSE NewChunkBuffer(chunk, t)
        created == [bufs EXCEPT ![m] = buffer]
    IN  IF Cardinality(DOMAIN buffer.Chunks) >= MaxChunksPerBuffer
        THEN [buffers |-> created, err |-> "chunk limit reached"]
        ELSE IF chunk.ChunkID \in DOMAIN buffer.Chunks
        THEN [buffers |-> created, err |-> ""]
        ELSE [buffers |-> [bufs EXCEPT ![m] = StoreChunk(buffer, chunk, t)],
              err |-> ""]

\* An AddChunk without the chunk limit of buffer.go 77-81, for comparison
AddChunkAnyLength(bufs, chunk, t) ==
    IF GetBufferCount(bufs) >= MaxBuffersPerPod
    THEN [buffers |-> bufs, err |-> "buffer limit reached"]
    ELSE LET m == chunk.MessageID
             buffer == IF bufs[m] # NoBuffer THEN bufs[m] ELSE NewChunkBuffer(chunk, t)
             created == [bufs EXCEPT ![m] = buffer]
         IN  IF chunk.ChunkID \in DOMAIN buffer.Chunks
             THEN [buffers |-> created, err |-> ""]
             ELSE [buffers |-> [bufs EXCEPT ![m] = StoreChunk(buffer, chunk, t)],
                   err |-> ""]

\* Manager.AddChunk: the new buffer map and the error ("" is nil)
AddChunk(bufs, chunk, t) ==
    IF GetBufferCount(bufs) >= MaxBuffersPerPod
    THEN [buffers |-> bufs, err |-> "buffer limit reached"]
    ELSE LET m == chunk.MessageID
             buffer == IF bufs[m] # NoBuffer THEN bufs[m] ELSE NewChunkBuffer(chunk, t)
             created == [bufs EXCEPT ![m] = buffer]
         IN  IF Cardinality(DOMAIN buffer.Chunks) >= MaxChunksPerBuffer
             THEN [buffers |-> created, err |-> "chunk limit reached"]
             ELSE IF chunk.ChunkID \in DOMAIN buffer.Chunks
             THEN [buffers |-> created, err |-> ""]
             ELSE [buffers |-> [bufs EXCEPT ![m] = StoreChunk(buffer, chunk, t)],
                   err |-> ""]

\* A drain loop that does not wait for a missing sequence but skips it, for
\* comparison
RECURSIVE CollectChunksPastGaps(_, _)
CollectChunksPastGaps(buffer, out) ==
    IF buffer.NextToSend > buffer.MaxChunkID
    THEN [buffer |-> buffer, chunks |-> out]
    ELSE LET next == [buffer EXCEPT !.NextToSend = @ + 1]
         IN  IF buffer.NextToSend \notin DOMAIN buffer.Chunks
             THEN CollectChunksPastGaps(next, out)
             ELSE CollectChunksPastGaps(
                      next, Append(out, buffer.Chunks[buffer.NextToSend]))

\* A drain loop that returns one fragment for each call, for comparison
CollectChunksOne(buffer, out) ==
    IF buffer.NextToSend \notin DOMAIN buffer.Chunks
    THEN [buffer |-> buffer, chunks |-> out]
    ELSE [buffer |-> [buffer EXCEPT !.NextToSend = @ + 1],
          chunks |-> Append(out, buffer.Chunks[buffer.NextToSend])]

\* buffer.go 128-142: the loop of GetNextChunks
RECURSIVE CollectChunks(_, _)
CollectChunks(buffer, out) ==
    IF buffer.NextToSend \notin DOMAIN buffer.Chunks
    THEN [buffer |-> buffer, chunks |-> out]
    ELSE LET chunk == buffer.Chunks[buffer.NextToSend]
             next == [buffer EXCEPT !.NextToSend = @ + 1]
         IN  IF chunk.IsFinal
             THEN [buffer |-> next, chunks |-> Append(out, chunk)]
             ELSE CollectChunks(next, Append(out, chunk))

\* A GetNextChunks that reports completion as soon as is_final was seen, for
\* comparison
GetNextChunksCompleteOnFinal(buffer) ==
    LET r == CollectChunks(buffer, <<>>)
    IN  [buffer |-> r.buffer, chunks |-> r.chunks, isComplete |-> r.buffer.IsFinal]

\* Manager.GetNextChunks on the buffer found in the map
GetNextChunks(buffer) ==
    LET r == CollectChunks(buffer, <<>>)
    IN  [buffer |-> r.buffer, chunks |-> r.chunks,
         isComplete |-> r.buffer.IsFinal /\ r.buffer.NextToSend > r.buffer.FinalChunkID]

\* A faulty FullContent, for comparison: it concatenates the chunks 0..last
\* in the order they arrived instead of the order of their sequence numbers
RECURSIVE FullContentByArrival(_, _)
FullContentByArrival(buffer, last) ==
    LET ids == {i \in DOMAIN buffer.Chunks : i <= last}
    IN  IF ids = {} THEN <<>>
        ELSE LET i == CHOOSE j \in ids :
                          \A k \in ids : buffer.Chunks[k].ptr <= buffer.Chunks[j].ptr
                 rest == [buffer EXCEPT !.Chunks = [s \in DOMAIN @ \ {i} |-> @[s]]]
             IN  FullContentByArrival(rest, last) \o
                 (IF buffer.Chunks[i].ChunkType = "content"
                  THEN buffer.Chunks[i].Chunk ELSE <<>>)

\* A FullContent that concatenates the fragments of every type, for
\* comparison
RECURSIVE FullContentOfAllTypes(_, _)
FullContentOfAllTypes(buffer, last) ==
    IF last < 0 THEN <<>>
    ELSE FullContentOfAllTypes(buffer, last - 1) \o buffer.Chunks[last].Chunk

\* buffer.go 183-188: concatenation of the content chunks 0..last
RECURSIVE FullContent(_, _)
FullContent(buffer, last) ==
    IF last < 0 THEN <<>>
    ELSE FullContent(buffer, last - 1) \o
         (IF buffer.Chunks[last].ChunkType = "content"
          THEN buffer.Chunks[last].Chunk ELSE <<>>)

\* A FinalizeMessage without the test of buffer.go 167-169, for comparison
FinalizeMessageUnfinished(buffer) ==
    IF \E i \in 0..buffer.FinalChunkID : i \notin DOMAIN buffer.Chunks
    THEN [err |-> "missing chunk"]
    ELSE [err |-> "",
          message |-> [MessageID |-> buffer.MessageID, SessionID |-> buffer.SessionID,
                       Role |-> "assistant",
                       Content |-> FullContent(buffer, buffer.FinalChunkID)]]

\* Manager.FinalizeMessage on the buffer removed from the map
FinalizeMessage(buffer) ==
    IF ~buffer.IsFinal
    THEN [err |-> "not yet finalized"]
    ELSE IF \E i \in 0..buffer.FinalChunkID : i \notin DOMAIN buffer.Chunks
    THEN [err |-> "missing chunk"]
    ELSE [err |-> "",
          message |-> [MessageID |-> buffer.MessageID, SessionID |-> buffer.SessionID,
                       Role |-> "assistant",
                       Content |-> FullContent(buffer, buffer.FinalChunkID)]]

\* A sweeper test that evicts by age alone, for comparison
IsStaleBufferByAge(buffer, t) == buffer.UpdatedAt < t - MaxBufferAge

\* A sweeper test that counts a buffer of exactly max_buffer_age as stale,
\* for comparison
IsStaleBufferInclusive(buffer, t) ==
    buffer.UpdatedAt <= t - MaxBufferAge \/ buffer.IsFinal

\* buffer.go 279-288: the sweeper's test for one buffer
IsStaleBuffer(buffer, t) ==
    LET staleThreshold == t - MaxBufferAge
        isStale == buffer.UpdatedAt < staleThreshold
        isFinal == buffer.IsFinal
    IN  isStale \/ isFinal

\* Manager.cleanup
cleanup(bufs, t) ==
    [m \in Messages |->
        IF bufs[m] # NoBuffer /\ IsStaleBuffer(bufs[m], t) THEN NoBuffer ELSE bufs[m]]

(* sse.Manager.  A []*Connection is a slice header over a backing array:   *)
(* arr is the array (its length is the capacity), len the slice length.    *)
(* Slots of arr beyond len keep whatever they last held.                   *)

NilSlice == [arr |-> <<>>, len |-> 0]

\* A filter that lets every broadcast fragment through, for comparison
HasActiveConnectionsAlways(sess, s) == TRUE

\* sse.Manager.HasActiveConnections
HasActiveConnections(sess, s) == sess[s].len > 0

\* Go's append of one element: in place while len < cap, else a new array
\* of doubled capacity (runtime growslice for small slices)
GoAppend(slice, c) ==
    IF slice.len < Len(slice.arr)
    THEN [arr |-> [slice.arr EXCEPT ![slice.len + 1] = c], len |-> slice.len + 1]
    ELSE LET newcap == IF Len(slice.arr) = 0 THEN 1 ELSE 2 * Len(slice.arr)
         IN  [arr |-> [k \in 1..newcap |->
                          IF k <= slice.len THEN slice.arr[k]
                          ELSE IF k = slice.len + 1 THEN c ELSE NilConn],
              len |-> slice.len + 1]

\* manager.go 108-113: append(conns[:i], conns[i+1:]...) shifts the tail of
\* the backing array one slot to the left, in place
RemoveFromSlice(slice, c) ==
    IF \E k \in 1..slice.len : slice.arr[k] = c
    THEN LET i == CHOOSE k \in 1..slice.len :
                     slice.arr[k] = c /\ \A j \in 1..(k - 1) : slice.arr[j] # c
         IN  [arr |-> [k \in 1..Len(slice.arr) |->
                          IF k >= i /\ k < slice.len THEN slice.arr[k + 1]
                          ELSE slice.arr[k]],
              len |-> slice.len - 1]
    ELSE slice

\* A RemoveConnection that keeps the emptied session entry, for comparison
DropEmptyNever(slice) == slice

\* manager.go 115-118: an emptied session entry is deleted from the index
DropEmpty(slice) == IF slice.len = 0 THEN NilSlice ELSE slice

(* HandleResponseChunk: the locals of one invocation.  conns is the slice  *)
(* SendToSession copied out of m.sessions: while shared it aliases the     *)
(* backing array of sessions[s]; once that entry moves to another array    *)
(* (append grew it, or the entry was deleted) the copy keeps the old one.  *)

NoConns == [shared |-> FALSE, arr |-> <<>>, len |-> 0]

\* during and wrote only record the SendToSession call in progress: the
\* streams registered since it copied the slice, and the streams written
\* conn is the stream whose writeEvent the invocation is inside of
Idle == [pc |-> "idle", chunk |-> NoChunk, chunksToSend |-> <<>>,
         isComplete |-> FALSE, event |-> NoEvent, conns |-> NoConns, i |-> 0,
         conn |-> NilConn, during |-> {}, wrote |-> <<>>]

\* SendHeartbeat not running
IdlePinger == [pc |-> "idle", conns |-> <<>>, i |-> 0, conn |-> NilConn]

ChunkEvent(chunk) == [Event |-> "chunk", Data |-> chunk]
CompleteEvent(message) ==
    [Event |-> "message_complete", Data |-> [message_id |-> message.MessageID]]
ConnectedEvent(c, s) ==
    [Event |-> "connected", Data |-> [connection_id |-> c, session_id |-> s]]

\* handlers 802-828: where the invocation goes once a SendToSession returned
AfterSend(h) ==
    IF h.chunksToSend # <<>>
    THEN [h EXCEPT !.pc = "send", !.event = ChunkEvent(Head(h.chunksToSend)),
                   !.conns = NoConns, !.i = 0, !.during = {}, !.wrote = <<>>]
    ELSE IF h.isComplete
    THEN [h EXCEPT !.pc = "finalize", !.event = NoEvent, !.conns = NoConns,
                   !.i = 0, !.during = {}, !.wrote = <<>>]
    ELSE Idle

\* the snapshots that alias the backing array of session s stop doing so
Detach(hs, sess, s) ==
    [k \in Subs |->
        IF hs[k].conns.shared /\ hs[k].chunk # NoChunk /\ hs[k].chunk.SessionID = s
        THEN [hs[k] EXCEPT !.conns = [shared |-> FALSE, arr |-> sess[s].arr,
                                      len |-> hs[k].conns.len]]
        ELSE hs[k]]

\* the element the range loop of SendToSession reads at position i
ConnAt(h, sess) ==
    IF h.conns.shared THEN sess[h.chunk.SessionID].arr[h.i] ELSE h.conns.arr[h.i]


(* What the sweeper is specified to evict after missing_chunk_timeout: a   *)
(* buffer that saw is_final and still misses a sequence of [0, final].     *)

HasGap(buffer) ==
    buffer.IsFinal /\ \E i \in 0..buffer.FinalChunkID : i \notin DOMAIN buffer.Chunks

FirstGap(buffer) ==
    CHOOSE i \in 0..buffer.FinalChunkID :
        i \notin DOMAIN buffer.Chunks /\ \A j \in 0..(i - 1) : j \in DOMAIN buffer.Chunks

\* the fragments a lossy eviction discards unsent: those stored after the gap
LostChunks(buffer, t) ==
    IF buffer # NoBuffer /\ HasGap(buffer) /\ buffer.UpdatedAt < t - MissingChunkTimeout
    THEN {buffer.Chunks[i].ptr : i \in {j \in DOMAIN buffer.Chunks : j > FirstGap(buffer)}}
    ELSE {}

(* The session directory: registry.SessionRegistry over Redis *)

\* TTLs of the directory keys, in ticks of the 10 s heartbeat ticker of
\* HandleSSE (scaled down: 5 minutes for the set and the hash, 30 s for
\* the liveness key)
SetTTL == 3
HeartbeatTTL == 2

\* a key without expiry
Forever == -1

NoKey == [members |-> {}, exp |-> 0]

\* Redis expires lazily: a key is there when it has content and its expiry,
\* if any, lies ahead
Live(key, t) == key.members # {} /\ (key.exp = Forever \/ t < key.exp)

Purge(key, t) == IF Live(key, t) THEN key ELSE NoKey

Members(key, t) == Purge(key, t).members

\* SADD: creates the key, without expiry, when it is absent
SAdd(key, v, t) ==
    IF Live(key, t) THEN [key EXCEPT !.members = @ \cup {v}]
    ELSE [members |-> {v}, exp |-> Forever]

\* EXPIRE: no effect on an absent key
Expire(key, ttl, t) ==
    IF Live(key, t) THEN [key EXCEPT !.exp = t + ttl] ELSE NoKey

\* SREM: the key goes with its last member
SRem(key, v, t) ==
    IF Members(key, t) \ {v} = {} THEN NoKey
    ELSE [key EXCEPT !.members = @ \ {v}]

HSet(key, f, t) ==
    IF Live(key, t) THEN [key EXCEPT !.members = @ \cup {f}]
    ELSE [members |-> {f}, exp |-> Forever]

(* An HDEL that removes nothing, for comparison *)
HDelNothing(key, f, t) == Purge(key, t)

HDel(key, f, t) ==
    IF Members(key, t) \ {f} = {} THEN NoKey
    ELSE [key EXCEPT !.members = @ \ {f}]

\* SET with expiry
Set(v, ttl, t) == [members |-> {v}, exp |-> t + ttl]

\* no key in the directory, no HandleSSE has called it.  session, pod and
\* heartbeat are the keys session:connections:<s>, pod:connections:<pod>
\* and heartbeat:<pod>:<c>; call is the position of HandleSSE of stream c
\* towards the directory, beat the time of its last heartbeat call, added
\* and removed the number of commands of RegisterConnection and
\* DeregisterConnection that succeeded, missed the streams with a failed
\* UpdateHeartbeat.
NoDirectory ==
    [session |-> [s \in Sessions |-> NoKey],
     pod |-> NoKey,
     heartbeat |-> [c \in ConnIDs |-> NoKey],
     call |-> [c \in ConnIDs |-> "none"],
     beat |-> [c \in ConnIDs |-> 0],
     added |-> [c \in ConnIDs |-> 0],
     removed |-> [c \in ConnIDs |-> 0],
     missed |-> {}]

(* The HTTP front: enableCORS, HandleChat, HandleSSE, and the bus client's *)
(* PublishWorkflowRequest                                                   *)

Paths == {"/api/chat", "/api/sse"}
Methods == {"GET", "POST", "OPTIONS", "DELETE"}

\* the requests of clients: the fields a JSON body that does not decode
\* carries are empty, a subscribe request carries its fields in the query
Requests ==
    {r \in [path : Paths, method : Methods, bodyOk : BOOLEAN,
            session_id : {"", "s1"}, user_id : {"", "u1"}, message : {"", "hi"}] :
        /\ r.path = "/api/sse" => r.bodyOk /\ r.message = ""
        /\ ~r.bodyOk => r.session_id = "" /\ r.user_id = "" /\ r.message = ""}

\* nothing published, no request answered, no uuid drawn
NoTraffic == [published |-> <<>>, responses |-> <<>>, ids |-> 0]

(* A validation that does not look at user_id, for comparison *)
MissingFieldsButUser(req) == req.session_id = "" \/ req.message = ""

\* handlers 649: the test of the required fields
MissingFields(req) ==
    req.session_id = "" \/ req.message = "" \/ req.user_id = ""

(* One subject for all sessions, for comparison *)
SubjectOfAll(session_id) == <<"chat", "workflow", "execute">>

\* nats client 902: chat.workflow.execute.<session_id>, as its tokens
Subject(session_id) == <<"chat", "workflow", "execute", session_id>>

\* handlers 655-656: the k-th pair of fresh uuids
NewIDs(k) == [message_id |-> 2 * k + 1, correlation_id |-> 2 * k + 2]

Response(req, status, ids) ==
    [req |-> req, status |-> status, message_id |-> ids.message_id,
     correlation_id |-> ids.correlation_id]

NoIDs == [message_id |-> 0, correlation_id |-> 0]

\* handlers 834-847: what GET /health reports of the two managers
HandleHealth ==
    [active_connections |-> Cardinality(connections),
     active_sessions |-> Cardinality({s \in Sessions : sessions[s] # NilSlice}),
     active_buffers |-> GetBufferCount(buffers)]

(* Strings of the directory, as sequences of characters.                   *)
\* GetActivePods 123: the length GetActivePods assumes of a connection id
UUIDLen == 36

\* a string of n characters ch
Chars(n, ch) == [i \in 1..n |-> ch]

\* instance ids (config PodID, any string)
PodIDs == {<<"p", "1">>, <<"p", "2">>, <<"n", ":", "p">>}

\* stream ids: uuid.New().String() has 36 characters (manager.go 60);
\* RegisterConnection takes whatever id its caller gives
StreamIDs == {Chars(2, "x"), Chars(UUIDLen, "x"), Chars(UUIDLen, "y"),
              Chars(UUIDLen + 4, "x")}

\* RegisterConnection 45: fmt.Sprintf("%s:%s", conn.PodID, conn.ConnectionID)
Marker(pod, id) == pod \o <<":">> \o id

\* GetActivePods 123: member[:len(member)-len(member[len(member)-36:])-1]
PodIDOf(member) == SubSeq(member, 1, Len(member) - UUIDLen - 1)

\* GetActivePods 123: both slice expressions are in range
InRange(member) == Len(member) - UUIDLen >= 0 /\ Len(member) - UUIDLen - 1 >= 0

NoLookup == [members |-> {}, called |-> FALSE, panicked |-> FALSE, pods |-> {}]

(* The locks of buffer.Manager.  Each method is the sequence of its calls   *)
(* on Manager.mu ("mu") and on the ChunkBuffer.mu of its message ("buf").   *)

LockOps == {"AddChunk", "GetNextChunks", "FinalizeMessage", "GetState", "cleanup"}

\* the messages whose buffers the methods are called on
Locked == {"m1", "m2"}

\* A manager whose FinalizeMessage removes the buffer from the map while it
\* holds the buffer's lock, for comparison
ProgramInnerFirst(op) ==
    CASE op = "AddChunk" -> <<"Lock mu", "Lock buf", "Unlock buf", "Unlock mu">>
      [] op = "GetNextChunks" -> <<"RLock mu", "RUnlock mu", "Lock buf", "Unlock buf">>
      [] op = "FinalizeMessage" -> <<"Lock buf", "Lock mu", "Unlock mu", "Unlock buf">>
      [] op = "GetState" -> <<"RLock mu", "RUnlock mu", "RLock buf", "RUnlock buf">>
      [] op = "cleanup" -> <<"Lock mu", "RLock buf", "RUnlock buf", "Unlock mu">>

\* buffer.go 53-54, 74-75 (deferred unlocks run in reverse); 114-116,
\* 122-123; 152-157, 163-164; 215-217, 223-224; 269-270, 278-281 (once for
\* each buffer of the map)
Program(op) ==
    CASE op = "AddChunk" -> <<"Lock mu", "Lock buf", "Unlock buf", "Unlock mu">>
      [] op = "GetNextChunks" -> <<"RLock mu", "RUnlock mu", "Lock buf", "Unlock buf">>
      [] op = "FinalizeMessage" -> <<"Lock mu", "Unlock mu", "Lock buf", "Unlock buf">>
      [] op = "GetState" -> <<"RLock mu", "RUnlock mu", "RLock buf", "RUnlock buf">>
      [] op = "cleanup" -> <<"Lock mu", "RLock buf", "RUnlock buf", "Unlock mu">>

\* a sync.RWMutex: the writer that holds it and the readers that hold it
Free == [w |-> "", r |-> {}]

\* a method that is not running; pc is the lock call it is at
NoTask == [pc |-> 0, m |-> "", found |-> FALSE, todo |-> {}, stale |-> {}]

\* calls counts the calls of each method; AddChunk is called once more than
\* the others, its first call makes the buffer the others find
CallsOf(op) == IF op = "AddChunk" THEN MaxCalls + 1 ELSE MaxCalls

NoLocks == [mu |-> Free, buf |-> [m \in Locked |-> Free], exists |-> {},
            task |-> [op \in LockOps |-> NoTask],
            calls |-> [op \in LockOps |-> 0]]

\* main is past its initialisation and waits for a signal (main 146-148)
Serving == [pc |-> "serving", done |-> <<>>]

(* Initial state: NewManager of both managers, no request in flight.  The  *)
(* producer fixes, per message, which sequence carries is_final.           *)

Init ==
    /\ now = 0
    /\ producer \in [Messages -> 0..MaxSeq]
    /\ \A m \in Messages \ Streaming : producer[m] = 0
    /\ delivered = 0
    /\ buffers = [m \in Messages |-> NoBuffer]
    /\ connections = {}
    /\ sessions = [s \in Sessions |-> NilSlice]
    /\ handler = [h \in Subs |-> Idle]
    /\ http = [c \in ConnIDs |-> [pc |-> "none", SessionID |-> "none"]]
    /\ sent = [c \in ConnIDs |-> <<>>]
    /\ arrivals = [m \in Messages |-> <<>>]
    /\ present = [m \in Messages |-> {}]
    /\ messages = <<>>
    /\ wire = [broken |-> {}, slow |-> {}, failed |-> {}]
    /\ pinger = IdlePinger
    /\ redis = NoDirectory
    /\ web = NoTraffic
    /\ main = Serving
    /\ lookup = NoLookup
    /\ locks = NoLocks

(* Time passes *)
Tick ==
    /\ UNCHANGED ext
    /\ now < MaxTime
    /\ now' = now + 1
    /\ UNCHANGED <<producer, delivered, buffers, connections, sessions, handler,
                   http, sent, arrivals, present, messages>>

(* The sweeper's ticker fires: Manager.cleanup *)
Sweep ==
    /\ UNCHANGED ext
    /\ buffers' = cleanup(buffers, now)
    /\ buffers' # buffers
    /\ arrivals' = [m \in Messages |->
          IF buffers'[m] = NoBuffer
          THEN [k \in DOMAIN arrivals[m] |->
                   IF k \in LostChunks(buffers[m], now)
                   THEN [arrivals[m][k] EXCEPT !.fate = "lossy"]
                   ELSE arrivals[m][k]]
          ELSE arrivals[m]]
    /\ UNCHANGED <<now, producer, delivered, connections, sessions, handler,
                   http, sent, present, messages>>

(* handlers 791-793: AddChunk; an error ends the invocation *)
IngestChunk(h, chunk) ==
    LET m == chunk.MessageID
        seq == chunk.ChunkID
        r == AddChunk(buffers, chunk, now)
        fate == IF r.err # "" THEN "rejected"
                ELSE IF buffers[m] # NoBuffer /\ seq \in DOMAIN buffers[m].Chunks
                THEN "duplicate" ELSE "stored"
    IN  /\ UNCHANGED ext
        /\ buffers' = r.buffers
        /\ arrivals' = [arrivals EXCEPT ![m] =
                           Append(@, [ChunkID |-> seq, fate |-> fate])]
        /\ present' = IF arrivals[m] = <<>>
                      THEN [present EXCEPT ![m] =
                               {c \in connections : http[c].SessionID = chunk.SessionID}]
                      ELSE present
        /\ handler' = [handler EXCEPT ![h] =
                          IF r.err # "" THEN Idle
                          ELSE [Idle EXCEPT !.pc = "drain", !.chunk = chunk]]
        /\ delivered' = delivered + 1
        /\ UNCHANGED <<now, producer, connections, sessions, http, sent, messages>>

(* HandleResponseChunk with a content fragment of the producer *)
Ingest(h, m, seq) ==
    IngestChunk(h, Fragment(m, seq, producer[m], Len(arrivals[m]) + 1))

(* A fragment arrives on chat.pod.<id>.response: HandleResponseChunk *)
DeliverDirect(m, seq) ==
    /\ handler["direct"].pc = "idle"
    /\ delivered < MaxDeliveries
    /\ Ingest("direct", m, seq)

(* A fragment arrives on chat.session.*.broadcast: main 100-106 *)
DeliverBroadcast(m, seq) ==
    /\ handler["broadcast"].pc = "idle"
    /\ delivered < MaxDeliveries
    /\ IF HasActiveConnections(sessions, SessionOf(m))
       THEN Ingest("broadcast", m, seq)
       ELSE /\ delivered' = delivered + 1
            /\ UNCHANGED ext
            /\ UNCHANGED <<now, producer, buffers, connections, sessions, handler,
                           http, sent, arrivals, present, messages>>

(* A fragment arrives on chat.pod.<id>.response in a run that fills the    *)
(* buffers: any message, any sequence up to one past the final one          *)
DeliverMany(m, seq) ==
    /\ handler["direct"].pc = "idle"
    /\ delivered < MaxArrivals
    /\ Ingest("direct", m, seq)

(* A fragment of any type and text arrives on chat.pod.<id>.response       *)
DeliverTyped(m, seq, type, retold) ==
    /\ handler["direct"].pc = "idle"
    /\ delivered < MaxDeliveries
    /\ IngestChunk("direct", TypedFragment(m, seq, producer[m],
                                           Len(arrivals[m]) + 1, type, retold))

(* nats client 923-930: a payload that does not decode into a              *)
(* ResponseChunk is logged and the callback returns                        *)
DeliverUndecodable ==
    /\ handler["direct"].pc = "idle"
    /\ delivered < MaxArrivals
    /\ delivered' = delivered + 1
    /\ UNCHANGED ext
    /\ UNCHANGED <<now, producer, buffers, connections, sessions, handler,
                   http, sent, arrivals, present, messages>>

(* handlers 796-799: GetNextChunks *)
Drain(h) ==
    /\ UNCHANGED ext
    /\ handler[h].pc = "drain"
    /\ LET m == handler[h].chunk.MessageID
       IN  IF buffers[m] = NoBuffer
           THEN /\ handler' = [handler EXCEPT ![h] = Idle]
                /\ UNCHANGED buffers
           ELSE LET r == GetNextChunks(buffers[m])
                IN  /\ buffers' = [buffers EXCEPT ![m] = r.buffer]
                    /\ handler' = [handler EXCEPT ![h] =
                          AfterSend([@ EXCEPT !.chunksToSend = r.chunks,
                                              !.isComplete = r.isComplete])]
    /\ UNCHANGED <<now, producer, delivered, connections, sessions, http, sent,
                   arrivals, present, messages>>

(* A SendToSession that puts a chunk back for a later drain when the       *)
(* session has no stream, for comparison                                   *)
SendToSessionKeeping(h) ==
    /\ UNCHANGED ext
    /\ handler[h].pc = "send"
    /\ LET s == handler[h].chunk.SessionID
           conns == sessions[s]
           m == handler[h].chunk.MessageID
       IN  /\ handler' = [handler EXCEPT ![h] =
                 IF conns.len = 0
                 THEN Idle
                 ELSE [@ EXCEPT !.pc = "write", !.i = 1,
                                !.conns = [shared |-> TRUE, arr |-> <<>>,
                                           len |-> conns.len],
                                !.during = {c \in connections : http[c].SessionID = s},
                                !.wrote = <<>>]]
           /\ buffers' = IF conns.len = 0 /\ handler[h].event.Event = "chunk"
                            /\ buffers[m] # NoBuffer
                         THEN [buffers EXCEPT ![m].NextToSend =
                                                  handler[h].event.Data.ChunkID]
                         ELSE buffers
    /\ UNCHANGED <<now, producer, delivered, connections, sessions, http,
                   sent, arrivals, present, messages>>

(* manager.go 144-150: SendToSession copies the slice header under RLock *)
SendToSession(h) ==
    /\ UNCHANGED ext
    /\ handler[h].pc = "send"
    /\ LET s == handler[h].chunk.SessionID
           conns == sessions[s]
       IN  handler' = [handler EXCEPT ![h] =
              IF conns.len = 0
              THEN IF @.event.Event = "chunk"
                   THEN AfterSend([@ EXCEPT !.chunksToSend = Tail(@)])
                   ELSE Idle
              ELSE [@ EXCEPT !.pc = "write", !.i = 1,
                             !.conns = [shared |-> TRUE, arr |-> <<>>,
                                        len |-> conns.len],
                             !.during = {c \in connections : http[c].SessionID = s},
                             !.wrote = <<>>]]
    /\ UNCHANGED <<now, producer, delivered, buffers, connections, sessions, http,
                   sent, arrivals, present, messages>>

(* manager.go 176-208: writeEvent hands the frame to the stream's writer;  *)
(* on a stream whose writes fail nothing reaches the client and the error  *)
(* is returned to the caller, which only logs it                           *)
writeEvent(conn, event) ==
    /\ sent' = IF conn \in wire.broken THEN sent
               ELSE [sent EXCEPT ![conn] = Append(@, event)]
    /\ wire' = IF conn \in wire.broken
               THEN [wire EXCEPT !.failed = @ \cup {conn}] ELSE wire

(* A range loop that returns at the first failed write, for comparison *)
FanOutStepStopOnError(h, conn) ==
    /\ writeEvent(conn, handler[h].event)
    /\ handler' = [handler EXCEPT ![h] =
          IF @.i < @.conns.len /\ conn \notin wire.broken
          THEN [@ EXCEPT !.pc = "write", !.i = @ + 1, !.wrote = Append(@, conn),
                         !.conn = NilConn]
          ELSE IF @.event.Event = "chunk"
          THEN AfterSend([@ EXCEPT !.chunksToSend = Tail(@), !.conn = NilConn])
          ELSE Idle]
    /\ UNCHANGED <<main, lookup, locks, now, producer, delivered, buffers, connections, sessions, http,
                   arrivals, present, messages, pinger, redis, web>>

(* manager.go 153-160: one iteration of the range loop over conns *)
FanOutStep(h, conn) ==
    /\ writeEvent(conn, handler[h].event)
    /\ handler' = [handler EXCEPT ![h] =
          IF @.i < @.conns.len
          THEN [@ EXCEPT !.pc = "write", !.i = @ + 1, !.wrote = Append(@, conn),
                         !.conn = NilConn]
          ELSE IF @.event.Event = "chunk"
          THEN AfterSend([@ EXCEPT !.chunksToSend = Tail(@), !.conn = NilConn])
          ELSE Idle]
    /\ UNCHANGED <<main, lookup, locks, now, producer, delivered, buffers, connections, sessions, http,
                   arrivals, present, messages, pinger, redis, web>>

(* The iteration as one step: the element is read and the frame written *)
WriteEvent(h) ==
    /\ handler[h].pc = "write"
    /\ FanOutStep(h, ConnAt(handler[h], sessions))

(* The iteration in two steps: the loop reads the element and enters       *)
(* writeEvent (fmt.Fprint and Flush, manager.go 197-202) ...               *)
BeginWrite(h) ==
    /\ handler[h].pc = "write"
    /\ handler' = [handler EXCEPT ![h] =
          [@ EXCEPT !.pc = "writing", !.conn = ConnAt(handler[h], sessions)]]
    /\ UNCHANGED <<now, producer, delivered, buffers, connections, sessions, http,
                   sent, arrivals, present, messages>>
    /\ UNCHANGED ext

(* ... and returns from it once the client has taken the frame *)
EndWrite(h) ==
    /\ handler[h].pc = "writing"
    /\ handler[h].conn \notin wire.slow
    /\ FanOutStep(h, handler[h].conn)

(* handlers 810-827: FinalizeMessage, then the completion event *)
Finalize(h) ==
    /\ UNCHANGED ext
    /\ handler[h].pc = "finalize"
    /\ LET m == handler[h].chunk.MessageID
       IN  IF buffers[m] = NoBuffer
           THEN /\ handler' = [handler EXCEPT ![h] = Idle]
                /\ UNCHANGED <<buffers, messages>>
           ELSE LET r == FinalizeMessage(buffers[m])
                IN  /\ buffers' = [buffers EXCEPT ![m] = NoBuffer]
                    /\ IF r.err # ""
                       THEN /\ handler' = [handler EXCEPT ![h] = Idle]
                            /\ UNCHANGED messages
                       ELSE /\ messages' = Append(messages,
                                  [message |-> r.message,
                                   chunks |-> {buffers[m].Chunks[i].ptr :
                                                  i \in DOMAIN buffers[m].Chunks}])
                            /\ handler' = [handler EXCEPT ![h] =
                                  [@ EXCEPT !.pc = "send",
                                            !.event = CompleteEvent(r.message)]]
    /\ UNCHANGED <<now, producer, delivered, connections, sessions, http, sent,
                   arrivals, present>>

(* HandleSSE 723: AddConnection registers the stream in both indices; the  *)
(* stream ids are fresh, so they are handed out in ascending order         *)
AddConnection(c, s) ==
    /\ UNCHANGED ext
    /\ http[c].pc = "none"
    /\ \A k \in ConnIDs : k < c => http[k].pc # "none"
    /\ connections' = connections \cup {c}
    /\ sessions' = [sessions EXCEPT ![s] = GoAppend(@, c)]
    /\ handler' = IF sessions[s].len < Len(sessions[s].arr)
                  THEN handler ELSE Detach(handler, sessions, s)
    /\ http' = [http EXCEPT ![c] = [pc |-> "added", SessionID |-> s]]
    /\ UNCHANGED <<now, producer, delivered, buffers, sent, arrivals, present,
                   messages>>

(* manager.go 82-88: the connected event, written outside the lock *)
SendConnected(c) ==
    /\ http[c].pc = "added"
    /\ writeEvent(c, ConnectedEvent(c, http[c].SessionID))
    /\ http' = [http EXCEPT ![c].pc = "open"]
    /\ UNCHANGED <<main, lookup, locks, now, producer, delivered, buffers, connections, sessions,
                   handler, arrivals, present, messages, pinger, redis, web>>

(* HandleSSE 756-764, cleanup: the request ends, RemoveConnection *)
RemoveConnection(c) ==
    /\ UNCHANGED ext
    /\ http[c].pc = "open"
    /\ LET s == http[c].SessionID
           slice == DropEmpty(RemoveFromSlice(sessions[s], c))
           hs == [h \in Subs |-> [handler[h] EXCEPT !.during = @ \ {c}]]
       IN  /\ sessions' = [sessions EXCEPT ![s] = slice]
           /\ handler' = IF slice = NilSlice THEN Detach(hs, sessions, s) ELSE hs
    /\ connections' = connections \ {c}
    /\ http' = [http EXCEPT ![c].pc = "closed"]
    /\ present' = [m \in Messages |-> present[m] \ {c}]
    /\ UNCHANGED <<now, producer, delivered, buffers, sent, arrivals, messages>>

(* The client side of a stream starts failing the server's writes (the    *)
(* response's write deadline has passed, the peer reset the connection)    *)
(* while the request context of its HandleSSE is not cancelled             *)
BreakStream(c) ==
    /\ c \in connections
    /\ c \notin wire.broken
    /\ wire' = [wire EXCEPT !.broken = @ \cup {c}]
    /\ UNCHANGED <<main, lookup, locks, now, producer, delivered, buffers, connections, sessions,
                   handler, http, sent, arrivals, present, messages, pinger, redis,
                   web>>

(* The client of a stream stops reading: the send buffer of its            *)
(* connection is full and a write to it blocks in fmt.Fprint / Flush       *)
SlowStream(c) ==
    /\ c \in connections
    /\ c \notin wire.slow
    /\ wire' = [wire EXCEPT !.slow = @ \cup {c}]
    /\ UNCHANGED <<main, lookup, locks, now, producer, delivered, buffers, connections, sessions,
                   handler, http, sent, arrivals, present, messages, pinger, redis,
                   web>>

(* The client reads again *)
ResumeStream(c) ==
    /\ c \in wire.slow
    /\ wire' = [wire EXCEPT !.slow = @ \ {c}]
    /\ UNCHANGED <<main, lookup, locks, now, producer, delivered, buffers, connections, sessions,
                   handler, http, sent, arrivals, present, messages, pinger, redis,
                   web>>

\* the orders in which a range over a map of keys S may visit them
Orders(S) ==
    {f \in [1..Cardinality(S) -> S] : \A j, k \in DOMAIN f : f[j] = f[k] => j = k}

PingEvent == [Event |-> "ping", Data |-> [timestamp |-> now]]

(* manager.go 248-253: SendHeartbeat copies m.connections under RLock *)
PingStart ==
    /\ pinger.pc = "idle"
    /\ connections # {}
    /\ \A c \in connections \ wire.broken : Len(sent[c]) < MaxFrames
    /\ \E conns \in Orders(connections) :
          pinger' = [pc |-> "ping", conns |-> conns, i |-> 1, conn |-> NilConn]
    /\ UNCHANGED <<main, lookup, locks, now, producer, delivered, buffers, connections, sessions,
                   handler, http, sent, arrivals, present, messages, wire, redis,
                   web>>

(* manager.go 262-269: one iteration of the ping loop *)
PingStep(conn) ==
    /\ writeEvent(conn, PingEvent)
    /\ pinger' = IF pinger.i < Len(pinger.conns)
                 THEN [pinger EXCEPT !.pc = "ping", !.i = @ + 1, !.conn = NilConn]
                 ELSE IdlePinger
    /\ UNCHANGED <<main, lookup, locks, now, producer, delivered, buffers, connections, sessions,
                   handler, http, arrivals, present, messages, redis, web>>

(* The iteration as one step *)
PingWrite ==
    /\ pinger.pc = "ping"
    /\ PingStep(pinger.conns[pinger.i])

(* The iteration in two steps: entering writeEvent, returning from it *)
PingBegin ==
    /\ pinger.pc = "ping"
    /\ pinger' = [pinger EXCEPT !.pc = "pinging", !.conn = pinger.conns[pinger.i]]
    /\ UNCHANGED <<main, lookup, locks, now, producer, delivered, buffers, connections, sessions,
                   handler, http, sent, arrivals, present, messages, wire, redis,
                   web>>

PingEnd ==
    /\ pinger.pc = "pinging"
    /\ pinger.conn \notin wire.slow
    /\ PingStep(pinger.conn)

(* A request is answered without anything else happening *)
Answer(req, status) ==
    /\ web' = [web EXCEPT !.responses = Append(@, Response(req, status, NoIDs))]
    /\ UNCHANGED <<main, lookup, locks, now, producer, delivered, buffers, connections, sessions,
                   handler, http, sent, arrivals, present, messages, wire, pinger,
                   redis>>

(* handlers 636-699: POST /api/chat.  The publish may fail (ok = FALSE).   *)
HandleChat(req, ok) ==
    IF req.method # "POST" THEN Answer(req, 405)
    ELSE IF ~req.bodyOk THEN Answer(req, 400)
    ELSE IF MissingFields(req) THEN Answer(req, 400)
    ELSE LET ids == NewIDs(web.ids)
             workflowReq == [subject |-> Subject(req.session_id),
                             message_id |-> ids.message_id,
                             session_id |-> req.session_id,
                             user_id |-> req.user_id,
                             message |-> req.message,
                             correlation_id |-> ids.correlation_id]
         IN  /\ web' = [published |->
                           IF ok THEN Append(web.published, workflowReq)
                           ELSE web.published,
                        responses |->
                           Append(web.responses,
                                  IF ok THEN Response(req, 202, ids)
                                  ELSE Response(req, 500, NoIDs)),
                        ids |-> web.ids + 1]
             /\ UNCHANGED <<main, lookup, locks, now, producer, delivered, buffers, connections,
                            sessions, handler, http, sent, arrivals, present,
                            messages, wire, pinger, redis>>

(* handlers 702-720: GET /api/sse with a wrong method or a missing query    *)
(* parameter; the request that passes goes on with AddConnection.          *)
HandleSSERejected(req) ==
    /\ req.method # "GET" \/ req.session_id = "" \/ req.user_id = ""
    /\ IF req.method # "GET" THEN Answer(req, 405) ELSE Answer(req, 400)

(* main 170-183, 112-115: enableCORS answers a preflight itself, the mux    *)
(* routes the other requests by path.                                      *)
ServeHTTP(req, ok) ==
    /\ Len(web.responses) < MaxRequests
    /\ IF req.method = "OPTIONS" THEN Answer(req, 200)
       ELSE IF req.path = "/api/chat" THEN HandleChat(req, ok)
       ELSE HandleSSERejected(req)

(* The directory calls of HandleSSE and the clock of its heartbeat ticker. *)
DirUnchanged ==
    UNCHANGED <<main, lookup, locks, producer, delivered, buffers, connections, sessions, handler,
                http, sent, arrivals, present, messages, wire, pinger, web>>

(* HandleSSE 742-745, registry 40-73: SADD, EXPIRE, HSET, EXPIRE, SET; the  *)
(* first n commands succeed, an error ends the call and is only logged.    *)
RegisterConnection(c, n) ==
    /\ http[c].pc = "open"
    /\ redis.call[c] = "none"
    /\ LET s == http[c].SessionID
           k1 == IF n >= 1 THEN SAdd(redis.session[s], c, now) ELSE redis.session[s]
           k2 == IF n >= 2 THEN Expire(k1, SetTTL, now) ELSE k1
           p1 == IF n >= 3 THEN HSet(redis.pod, c, now) ELSE redis.pod
           p2 == IF n >= 4 THEN Expire(p1, SetTTL, now) ELSE p1
           hb == IF n >= 5 THEN Set(c, HeartbeatTTL, now) ELSE redis.heartbeat[c]
       IN  redis' = [redis EXCEPT !.session[s] = k2, !.pod = p2,
                                  !.heartbeat[c] = hb, !.call[c] = "registered",
                                  !.beat[c] = now, !.added[c] = n]
    /\ now' = now
    /\ DirUnchanged

(* HandleSSE 766-770, registry 100-106: the ticker fired, SET of the        *)
(* liveness key; an error is only logged.                                  *)
UpdateHeartbeat(c, ok) ==
    /\ http[c].pc = "open"
    /\ redis.call[c] = "registered"
    /\ redis.beat[c] < now
    /\ redis' = [redis EXCEPT
          !.heartbeat[c] = IF ok THEN Set(c, HeartbeatTTL, now) ELSE @,
          !.beat[c] = now,
          !.missed = IF ok THEN @ ELSE @ \cup {c}]
    /\ now' = now
    /\ DirUnchanged

(* HandleSSE 756-764, cleanup 776-780: the wait loop, entered after the     *)
(* registration, sees the stream or the request context done.              *)
Cleanup(c) ==
    /\ redis.call[c] = "registered"
    /\ RemoveConnection(c)

(* cleanup 783-785, registry 76-97: SREM, HDEL, DEL; the first n commands   *)
(* succeed, an error ends the call and is only logged.                     *)
DeregisterConnection(c, n) ==
    /\ http[c].pc = "closed"
    /\ redis.call[c] = "registered"
    /\ LET s == http[c].SessionID
       IN  redis' = [redis EXCEPT
             !.session[s] = IF n >= 1 THEN SRem(@, c, now) ELSE @,
             !.pod = IF n >= 2 THEN HDel(@, c, now) ELSE @,
             !.heartbeat[c] = IF n >= 3 THEN NoKey ELSE @,
             !.call[c] = "deregistered",
             !.removed[c] = n]
    /\ now' = now
    /\ DirUnchanged

(* Ten seconds pass: every ticker of a waiting HandleSSE has fired and its  *)
(* heartbeat call has been made.                                           *)
DirTick ==
    /\ now < MaxTime
    /\ \A c \in ConnIDs :
          http[c].pc = "open" /\ redis.call[c] = "registered" => redis.beat[c] = now
    /\ now' = now + 1
    /\ redis' = redis
    /\ DirUnchanged


(* main 145-167 and its deferred calls: the graceful shutdown.             *)
MainStep(to, step) ==
    /\ main' = [pc |-> to,
                done |-> IF step = "" THEN main.done ELSE Append(main.done, step)]
    /\ UNCHANGED <<now, producer, delivered, buffers, connections, sessions,
                   handler, http, sent, arrivals, present, messages, wire, pinger,
                   redis, web, lookup, locks>>

(* main 146-148: SIGINT or SIGTERM arrives on quit *)
Signal == main.pc = "serving" /\ MainStep("signalled", "")

(* main 157-159: nats.Drain *)
NatsDrain == main.pc = "signalled" /\ MainStep("drained", "drain bus")

(* main 162-164: server.Shutdown closes the listener and returns when no    *)
(* request is active or when its 30 s context expires; it cancels no       *)
(* request context, so a HandleSSE that is waiting goes on waiting.        *)
ServerShutdown == main.pc = "drained" /\ MainStep("stopped", "stop http")

(* main 81, deferred: bufferManager.StopCleanup *)
StopCleanup == main.pc = "stopped" /\ MainStep("swept", "stop sweeper")

(* main 59, deferred: nats.Close *)
NatsClose == main.pc = "swept" /\ MainStep("unplugged", "close bus")

(* main 44, deferred: sessionRegistry.Close; main returns and the process   *)
(* ends with all its goroutines.                                           *)
RegistryClose == main.pc = "unplugged" /\ MainStep("exited", "close directory")

\* the listener takes requests
Listening == main.pc \in {"serving", "signalled", "drained"}

\* the process, and with it every handler goroutine, is there
Running == main.pc # "exited"


LookupStep(next) ==
    /\ lookup' = next
    /\ UNCHANGED <<now, producer, delivered, buffers, connections, sessions,
                   handler, http, sent, arrivals, present, messages, wire, pinger,
                   redis, web, main, locks>>

(* RegisterConnection 42-50: SAdd of the marker to the session's set *)
SAddMarker(pod, id) ==
    /\ Cardinality(lookup.members \cup {Marker(pod, id)}) <= MaxMarkers
    /\ LookupStep([lookup EXCEPT !.members = @ \cup {Marker(pod, id)}])

(* DeregisterConnection 78-83: SRem of the marker *)
SRemMarker(pod, id) ==
    /\ Marker(pod, id) \in lookup.members
    /\ LookupStep([lookup EXCEPT !.members = @ \ {Marker(pod, id)}])

(* GetActivePods 109-135: a slice expression out of range panics; empty    *)
(* pod ids are left out (124-126).                                         *)
GetActivePods ==
    LET members == lookup.members
    IN  IF \E member \in members : ~InRange(member)
        THEN LookupStep([lookup EXCEPT !.called = TRUE, !.panicked = TRUE,
                                       !.pods = {}])
        ELSE LookupStep([lookup EXCEPT
                 !.called = TRUE, !.panicked = FALSE,
                 !.pods = {PodIDOf(member) : member \in members} \ {<<>>}])


(* The ingest loop fed by the pod subscription alone: the bus client runs  *)
(* the callbacks of one subscription one at a time.                        *)
(* buffer.Manager under its locks.  sync.RWMutex: Lock waits until no       *)
(* writer and no reader holds the mutex; RLock waits while a writer holds  *)
(* it or waits for it; the writer's Unlock admits the readers that wait.   *)

\* the lock call the method is at
Instr(op) ==
    IF locks.task[op].pc = 0 THEN "" ELSE Program(op)[locks.task[op].pc]

\* the methods that wait in this call (on the buffer of m, for "buf")
Waiting(ins, m) ==
    {op \in LockOps : Instr(op) = ins /\ (m = "" \/ locks.task[op].m = m)}

PosOf(op, ins) == CHOOSE k \in DOMAIN Program(op) : Program(op)[k] = ins

\* the task after its call: past the last one the method has returned
Advance(op, task) ==
    IF task.pc = Len(Program(op)) THEN NoTask ELSE [task EXCEPT !.pc = @ + 1]

LockStep(next) ==
    /\ locks' = next
    /\ UNCHANGED <<now, producer, delivered, buffers, connections, sessions,
                   handler, http, sent, arrivals, present, messages, wire, pinger,
                   redis, web, main, lookup>>

(* A method of the manager is called for the buffer of message m *)
Call(op, m) ==
    /\ locks.task[op].pc = 0
    /\ locks.calls[op] < CallsOf(op)
    /\ LockStep([locks EXCEPT !.task[op] = [NoTask EXCEPT !.pc = 1, !.m = m],
                              !.calls[op] = @ + 1])

(* m.mu.Lock returns.  AddChunk 56-72: at the pod limit it returns, else    *)
(* the buffer is in the map; FinalizeMessage 153-156: the buffer is taken  *)
(* out of the map; cleanup 277: the loop ranges over the map.              *)
LockMu(op) ==
    /\ Instr(op) = "Lock mu"
    /\ locks.mu = Free
    /\ LET t == locks.task[op]
           held == [locks EXCEPT !.mu.w = op]
       IN  CASE op = "AddChunk" ->
                  IF Cardinality(locks.exists) >= MaxBuffersPerPod
                  THEN LockStep([held EXCEPT
                           !.task[op].pc = PosOf(op, "Unlock mu")])
                  ELSE LockStep([held EXCEPT !.exists = @ \cup {t.m},
                                             !.task[op] = Advance(op, t)])
             [] op = "cleanup" ->
                  IF locks.exists = {}
                  THEN LockStep([held EXCEPT
                           !.task[op].pc = PosOf(op, "Unlock mu")])
                  ELSE \E m \in locks.exists :
                           LockStep([held EXCEPT
                               !.task[op] = Advance(op, [t EXCEPT
                                   !.m = m, !.todo = locks.exists])])
             [] OTHER ->
                  LockStep([held EXCEPT
                      !.exists = @ \ {t.m},
                      !.task[op] = Advance(op, [t EXCEPT
                                                  !.found = t.m \in locks.exists])])

(* m.mu.Unlock; cleanup 292-294 has deleted the stale buffers;             *)
(* FinalizeMessage 159-161 returns when it found no buffer (a return       *)
(* releases what the method holds)                                         *)
UnlockMu(op) ==
    /\ Instr(op) = "Unlock mu"
    /\ LET t == locks.task[op]
           freed == [locks EXCEPT
                        !.mu = [w |-> "", r |-> Waiting("RLock mu", "")],
                        !.exists = @ \ t.stale]
       IN  IF op = "FinalizeMessage" /\ ~t.found
           THEN LockStep([freed EXCEPT
                             !.buf = [m \in Locked |->
                                         IF @[m].w = op THEN Free ELSE @[m]],
                             !.task[op] = NoTask])
           ELSE LockStep([freed EXCEPT !.task[op] = Advance(op, t)])

(* m.mu.RLock returns, and the buffer is looked up (115, 216) *)
RLockMu(op) ==
    /\ Instr(op) = "RLock mu"
    /\ \/ op \in locks.mu.r
       \/ locks.mu.w = "" /\ Waiting("Lock mu", "") = {}
    /\ LET t == locks.task[op]
       IN  LockStep([locks EXCEPT
               !.mu.r = @ \cup {op},
               !.task[op] = Advance(op, [t EXCEPT !.found = t.m \in locks.exists])])

(* m.mu.RUnlock; 118-120, 219-221: return when there is no buffer *)
RUnlockMu(op) ==
    /\ Instr(op) = "RUnlock mu"
    /\ LET t == locks.task[op]
       IN  LockStep([locks EXCEPT
               !.mu.r = @ \ {op},
               !.task[op] = IF t.found THEN Advance(op, t) ELSE NoTask])

(* buffer.mu.Lock returns *)
LockBuf(op) ==
    /\ Instr(op) = "Lock buf"
    /\ LET t == locks.task[op]
       IN  /\ locks.buf[t.m] = Free
           /\ LockStep([locks EXCEPT !.buf[t.m].w = op,
                                     !.task[op] = Advance(op, t)])

(* buffer.mu.Unlock *)
UnlockBuf(op) ==
    /\ Instr(op) = "Unlock buf"
    /\ LET t == locks.task[op]
       IN  LockStep([locks EXCEPT
               !.buf[t.m] = [w |-> "", r |-> Waiting("RLock buf", t.m)],
               !.task[op] = Advance(op, t)])

(* buffer.mu.RLock returns *)
RLockBuf(op) ==
    /\ Instr(op) = "RLock buf"
    /\ LET t == locks.task[op]
       IN  /\ \/ op \in locks.buf[t.m].r
              \/ locks.buf[t.m].w = "" /\ Waiting("Lock buf", t.m) = {}
           /\ LockStep([locks EXCEPT !.buf[t.m].r = @ \cup {op},
                                     !.task[op] = Advance(op, t)])

(* buffer.mu.RUnlock; cleanup 279-288 has noted whether the buffer is       *)
(* stale, and goes on to the next buffer of the map                        *)
RUnlockBuf(op) ==
    /\ Instr(op) = "RUnlock buf"
    /\ LET t == locks.task[op]
           freed == [locks EXCEPT !.buf[t.m].r = @ \ {op}]
       IN  IF op = "cleanup"
           THEN \E isStale \in BOOLEAN :
                  LET stale == IF isStale THEN t.stale \cup {t.m} ELSE t.stale
                      todo == t.todo \ {t.m}
                  IN  IF todo = {}
                      THEN LockStep([freed EXCEPT
                               !.task[op] = Advance(op, [t EXCEPT
                                   !.stale = stale, !.todo = todo])])
                      ELSE \E m \in todo :
                               LockStep([freed EXCEPT
                                   !.task[op] = [t EXCEPT
                                       !.pc = PosOf(op, "RLock buf"), !.m = m,
                                       !.stale = stale, !.todo = todo]])
           ELSE LockStep([freed EXCEPT !.task[op] = Advance(op, t)])

\* the method goes on: one of its lock calls returns
Proceed(op) ==
    \/ LockMu(op)
    \/ UnlockMu(op)
    \/ RLockMu(op)
    \/ RUnlockMu(op)
    \/ LockBuf(op)
    \/ UnlockBuf(op)
    \/ RLockBuf(op)
    \/ RUnlockBuf(op)

NextIngest ==
    \/ \E m \in Streaming : \E seq \in 0..producer[m] : DeliverDirect(m, seq)
    \/ \E h \in Subs : Drain(h)
    \/ \E h \in Subs : SendToSession(h)
    \/ \E h \in Subs : WriteEvent(h)
    \/ \E h \in Subs : Finalize(h)

NextStreams(ids) ==
    \/ \E c \in ids : \E s \in Subscribed : AddConnection(c, s)
    \/ \E c \in ids : SendConnected(c)
    \/ \E c \in ids : RemoveConnection(c)

Next ==
    \/ Tick
    \/ Sweep
    \/ NextIngest
    \/ NextStreams(1..MaxStreams)

Spec == Init /\ [][Next]_vars

(* Both subscriptions deliver: two invocations of HandleResponseChunk run  *)
(* side by side.                                                           *)
NextConcurrent ==
    \/ Sweep
    \/ NextIngest
    \/ \E m \in Streaming : \E seq \in 0..producer[m] : DeliverBroadcast(m, seq)
    \/ NextStreams(1..MaxStreams)

SpecConcurrent == Init /\ [][NextConcurrent]_vars

(* Streams come and go while the ingest loop fans out.                     *)
NextFanout ==
    \/ NextIngest
    \/ NextStreams(1..MaxConns)

SpecFanout == Init /\ [][NextFanout]_vars

(* Streams whose writes fail, under the ingest loop.                       *)
NextFailures ==
    \/ NextIngest
    \/ \E c \in ConnIDs : \E s \in Subscribed : AddConnection(c, s)
    \/ \E c \in ConnIDs : SendConnected(c)
    \/ \E c \in ConnIDs : BreakStream(c)

SpecFailures == Init /\ [][NextFailures]_vars

(* Streams registered in the directory, kept alive and deregistered.       *)
NextDirectory ==
    \/ DirTick
    \/ \E c \in ConnIDs : \E s \in Subscribed : AddConnection(c, s)
    \/ \E c \in ConnIDs : SendConnected(c)
    \/ \E c \in ConnIDs : \E n \in 0..5 : RegisterConnection(c, n)
    \/ \E c \in ConnIDs : \E ok \in BOOLEAN : UpdateHeartbeat(c, ok)
    \/ \E c \in ConnIDs : Cleanup(c)
    \/ \E c \in ConnIDs : \E n \in 0..3 : DeregisterConnection(c, n)

SpecDirectory == Init /\ [][NextDirectory]_vars

(* The heartbeat loop over streams whose writes fail.  The program's own    *)
(* steps are fair: the 30 s ticker of StartHeartbeat keeps firing, a loop   *)
(* that has started goes on, AddConnection writes its connected event.     *)
(* The client's steps (connecting, disconnecting, the stream breaking) are  *)
(* not.                                                                    *)
NextTeardown ==
    \/ \E c \in ConnIDs : \E s \in Subscribed : AddConnection(c, s)
    \/ \E c \in ConnIDs : SendConnected(c)
    \/ \E c \in ConnIDs : RemoveConnection(c)
    \/ \E c \in ConnIDs : BreakStream(c)
    \/ PingStart
    \/ PingWrite

FairTeardown ==
    /\ WF_vars(PingStart)
    /\ WF_vars(PingWrite)
    /\ \A c \in ConnIDs : WF_vars(SendConnected(c))

SpecTeardown == Init /\ [][NextTeardown]_vars /\ FairTeardown

(* The writers of a stream, each frame write in two steps (entered, left):  *)
(* the fan-out of the ingest invocation and the heartbeat loop, with       *)
(* clients that stop reading.                                              *)
NextWriters ==
    \/ \E m \in Messages : \E seq \in 0..producer[m] : DeliverDirect(m, seq)
    \/ \E h \in Subs : Drain(h)
    \/ \E h \in Subs : SendToSession(h)
    \/ \E h \in Subs : BeginWrite(h)
    \/ \E h \in Subs : EndWrite(h)
    \/ \E h \in Subs : Finalize(h)
    \/ \E c \in 1..MaxStreams : \E s \in Subscribed : AddConnection(c, s)
    \/ \E c \in 1..MaxStreams : SendConnected(c)
    \/ \E c \in 1..MaxStreams : SlowStream(c)
    \/ \E c \in 1..MaxStreams : ResumeStream(c)
    \/ PingStart
    \/ PingBegin
    \/ PingEnd

SpecWriters == Init /\ [][NextWriters]_vars

(* The HTTP front: requests of every shape on both paths, next to streams  *)
(* that subscribe with a valid request and register in the directory.      *)
NextHTTP ==
    \/ \E req \in Requests : \E ok \in BOOLEAN : ServeHTTP(req, ok)
    \/ \E c \in 1..MaxStreams : \E s \in Subscribed : AddConnection(c, s)
    \/ \E c \in 1..MaxStreams : SendConnected(c)
    \/ \E c \in 1..MaxStreams : \E n \in 0..5 : RegisterConnection(c, n)

SpecHTTP == Init /\ [][NextHTTP]_vars

(* The buffer manager at its limits: fragments of three messages, more      *)
(* sequences than a buffer may hold, payloads that do not decode, and the   *)
(* sweeper.                                                                *)
NextLimits ==
    \/ \E m \in Messages : \E seq \in 0..(producer[m] + 1) : DeliverMany(m, seq)
    \/ DeliverUndecodable
    \/ \E h \in Subs : Drain(h)
    \/ \E h \in Subs : SendToSession(h)
    \/ \E h \in Subs : Finalize(h)
    \/ Tick
    \/ Sweep

SpecLimits == Init /\ [][NextLimits]_vars

(* Fragments of every type, with texts that may differ between two         *)
(* deliveries of one sequence, and with sequences beyond the final one.    *)
NextContent ==
    \/ \E m \in Messages : \E seq \in 0..(producer[m] + 1) :
          \E type \in ChunkTypes : \E retold \in BOOLEAN :
              DeliverTyped(m, seq, type, retold)
    \/ \E h \in Subs : Drain(h)
    \/ \E h \in Subs : SendToSession(h)
    \/ \E h \in Subs : Finalize(h)
    \/ Sweep

SpecContent == Init /\ [][NextContent]_vars

(* The methods of buffer.Manager called concurrently on any buffers.  As   *)
(* long as some goroutine can run, one of them is scheduled.               *)
NextLocks ==
    \/ \E op \in LockOps : \E m \in Locked : Call(op, m)
    \/ \E op \in LockOps : LockMu(op)
    \/ \E op \in LockOps : UnlockMu(op)
    \/ \E op \in LockOps : RLockMu(op)
    \/ \E op \in LockOps : RUnlockMu(op)
    \/ \E op \in LockOps : LockBuf(op)
    \/ \E op \in LockOps : UnlockBuf(op)
    \/ \E op \in LockOps : RLockBuf(op)
    \/ \E op \in LockOps : RUnlockBuf(op)

FairLocks == WF_vars(\E op \in LockOps : Proceed(op))

\* no fragment is on its way: the producers play no part in these runs
InitLocks == Init /\ producer = [m \in Messages |-> 0]

SpecLocks == InitLocks /\ [][NextLocks]_vars /\ FairLocks

(* Streams of both sessions come and go while the ingest loop fans out.    *)
NextRegistry ==
    \/ NextIngest
    \/ \E c \in ConnIDs : \E s \in Sessions : AddConnection(c, s)
    \/ \E c \in ConnIDs : SendConnected(c)
    \/ \E c \in ConnIDs : RemoveConnection(c)

SpecRegistry == Init /\ [][NextRegistry]_vars

(* The graceful shutdown of an instance with streams registered in the      *)
(* directory; clients may disconnect at any time before the process ends.  *)
NextShutdown ==
    \/ Signal
    \/ NatsDrain
    \/ ServerShutdown
    \/ StopCleanup
    \/ NatsClose
    \/ RegistryClose
    \/ \E c \in ConnIDs : \E s \in Subscribed : Listening /\ AddConnection(c, s)
    \/ \E c \in ConnIDs : Running /\ SendConnected(c)
    \/ \E c \in ConnIDs : \E n \in 0..5 : Running /\ RegisterConnection(c, n)
    \/ \E c \in ConnIDs : Running /\ Cleanup(c)
    \/ \E c \in ConnIDs : \E n \in 0..3 : Running /\ DeregisterConnection(c, n)

SpecShutdown == Init /\ [][NextShutdown]_vars

(* Instances register and deregister streams of one session, and the       *)
(* directory is asked which instances have streams of it.                  *)
NextLookup ==
    \/ \E pod \in PodIDs : \E id \in StreamIDs : SAddMarker(pod, id)
    \/ \E pod \in PodIDs : \E id \in StreamIDs : SRemMarker(pod, id)
    \/ GetActivePods

SpecLookup == Init /\ [][NextLookup]_vars








(* Properties *)

\* the chunk_id values of the chunk events of message m written to stream c
RECURSIVE ChunkIDsOf(_, _)
ChunkIDsOf(events, m) ==
    IF events = <<>> THEN <<>>
    ELSE LET e == Head(events)
         IN  (IF e.Event = "chunk" /\ e.Data.MessageID = m
              THEN <<e.Data.ChunkID>> ELSE <<>>) \o ChunkIDsOf(Tail(events), m)

ChunkIDsSent(c, m) == ChunkIDsOf(sent[c], m)

ArrivedIDs(m) == [k \in DOMAIN arrivals[m] |-> arrivals[m][k].ChunkID]

\* every fragment 0..N of m arrived, each once
IsPermutation(m) ==
    /\ Len(arrivals[m]) = producer[m] + 1
    /\ {arrivals[m][k].ChunkID : k \in DOMAIN arrivals[m]} = 0..producer[m]

\* no fragment of m arrived twice
NoRedelivery(m) ==
    \A j, k \in DOMAIN arrivals[m] :
        arrivals[m][j].ChunkID = arrivals[m][k].ChunkID => j = k

Finalized(m) == \E k \in DOMAIN messages : messages[k].message.MessageID = m

UpTo(n) == [k \in 1..(n + 1) |-> k - 1]

\* C1: once a message whose fragments 0..N arrived each once (in any order,
\* one ingest invocation at a time) is finalized, a stream registered for
\* the session during the whole message has received exactly the chunk
\* events 0, 1, ..., N, each once, ascending.
C1_EmittedInOrderOnce ==
    \A m \in Streaming : \A c \in present[m] :
        IsPermutation(m) /\ Finalized(m) => ChunkIDsSent(c, m) = UpTo(producer[m])

\* C2: with both subscriptions delivering fragments of one message, none of
\* them twice, each stream of the session receives the chunk events in
\* strictly ascending sequence without gaps, in the same order as the
\* other streams of the session.
C2_ConcurrentOrder ==
    \A m \in Streaming :
        NoRedelivery(m) =>
            /\ \A c \in ConnIDs :
                  LET ids == ChunkIDsSent(c, m)
                  IN  \A k \in 1..(Len(ids) - 1) : ids[k + 1] = ids[k] + 1
            /\ \A c, d \in present[m] :
                  LET a == ChunkIDsSent(c, m)
                      b == ChunkIDsSent(d, m)
                  IN  \A k \in 1..Len(a) : k <= Len(b) => a[k] = b[k]

\* C3: finalize returns a Message at most once per message id, also when
\* fragments are redelivered after the message completed.
C3_FinalizedOnce ==
    \A m \in Streaming :
        Cardinality({k \in DOMAIN messages : messages[k].message.MessageID = m}) <= 1

\* Sequential ingestion of the fragments seq, seq+1, ..., N of m: each is
\* added and the buffer drained before the next one arrives
RECURSIVE IngestInOrder(_, _, _)
IngestInOrder(bufs, m, seq) ==
    IF seq > producer[m] THEN bufs
    ELSE LET r == AddChunk(bufs, Fragment(m, seq, producer[m], seq + 1), 0)
         IN  IF r.err # "" THEN r.buffers
             ELSE IngestInOrder(
                      [r.buffers EXCEPT ![m] = GetNextChunks(@).buffer], m, seq + 1)

\* what FinalizeMessage returns after the sequential ingestion of 0..N
SequentialResult(m) ==
    FinalizeMessage(IngestInOrder([k \in Messages |-> NoBuffer], m, 0)[m])

\* C4: whatever the order in which the fragments 0..N of a message arrived,
\* the Message finalize returns carries the content that ingesting them in
\* the order 0, 1, ..., N produces.
C4_SameAssembledContent ==
    \A k \in DOMAIN messages :
        LET m == messages[k].message.MessageID
        IN  /\ SequentialResult(m).err = ""
            /\ messages[k].message = SequentialResult(m).message

\* C4 witness: a message assembled from the arrival order 2, 0, 1
C4_AssembledOutOfOrder ==
    \E m \in Streaming :
        /\ producer[m] = 2
        /\ ArrivedIDs(m) = <<2, 0, 1>>
        /\ Finalized(m)

\* the chunk events of message m written to any stream, as fragment addresses
SentPtrs(m) ==
    UNION {{sent[c][j].Data.ptr :
               j \in {i \in DOMAIN sent[c] : /\ sent[c][i].Event = "chunk"
                                             /\ sent[c][i].Data.MessageID = m}} :
              c \in ConnIDs}

\* the fragments the Messages finalize returned for m were assembled from
AssembledPtrs(m) ==
    UNION {messages[j].chunks :
              j \in {i \in DOMAIN messages : messages[i].message.MessageID = m}}

\* the fragments of m the invocations now hold to be sent
HeldPtrs(m) ==
    UNION {{handler[h].chunksToSend[j].ptr : j \in DOMAIN handler[h].chunksToSend} :
              h \in {k \in Subs : /\ handler[k].chunk # NoChunk
                                   /\ handler[k].chunk.MessageID = m}}

FatedPtrs(m, fate) == {k \in DOMAIN arrivals[m] : arrivals[m][k].fate = fate}

\* c was registered before m's first fragment, is still registered, and no
\* other stream was ever opened
SoleSubscriber(c, m) ==
    c \in present[m] /\ \A d \in ConnIDs \ {c} : http[d].pc = "none"

\* has seen is_final, misses a sequence, last updated within the grace
InGrace(buffer, t) ==
    buffer # NoBuffer /\ HasGap(buffer) /\ buffer.UpdatedAt >= t - MissingChunkTimeout

\* has seen is_final, misses a sequence, last updated before the grace
Overdue(buffer, t) ==
    buffer # NoBuffer /\ HasGap(buffer) /\ buffer.UpdatedAt < t - MissingChunkTimeout

\* C5: a buffer that has seen is_final and still misses sequences is not
\* evicted before missing_chunk_timeout has elapsed since its last update
\* (so that it completes when the missing fragments arrive within the
\* grace): no step removes such a buffer.
C5_GraceBeforeEviction ==
    [][\A m \in Streaming : InGrace(buffers[m], now) => buffers'[m] # NoBuffer]_vars

\* C6: a buffer that has seen is_final, misses a sequence of [0, final_seq]
\* and was last updated longer ago than missing_chunk_timeout is removed by
\* a sweeper tick; the fragments it held after the gap are never sent to a
\* stream, and no Message (hence no message_complete) is made from them.
C6_LossyEviction ==
    \A m \in Streaming :
        /\ Overdue(buffers[m], now) => cleanup(buffers, now)[m] = NoBuffer
        /\ FatedPtrs(m, "lossy") \cap SentPtrs(m) = {}
        /\ FatedPtrs(m, "lossy") \cap HeldPtrs(m) = {}
        /\ FatedPtrs(m, "lossy") \cap AssembledPtrs(m) = {}

\* C6 witness: the sweeper evicted an overdue buffer after fragment 0 was
\* sent, and discarded the fragments it held after the gap
C6_EvictedWithGap ==
    \E m \in Streaming :
        /\ FatedPtrs(m, "lossy") # {}
        /\ SentPtrs(m) # {}
        /\ buffers[m] = NoBuffer

\* C7: ingesting a fragment whose sequence the live buffer of its message
\* already holds leaves the buffer as it was, and that fragment is never
\* sent to a stream nor assembled into the Message; its invocation sends
\* nothing.  As long as no sequence was stored twice (in a buffer opened
\* after an eviction or a finalize), the subscriber receives each sequence
\* at most once, however many duplicates arrived.
C7_DuplicateIdempotent ==
    /\ [][\A m \in Streaming :
             /\ Len(arrivals'[m]) = Len(arrivals[m]) + 1
             /\ arrivals'[m][Len(arrivals'[m])].fate = "duplicate"
             => buffers' = buffers]_vars
    /\ [](\A m \in Streaming :
             /\ FatedPtrs(m, "duplicate") \cap SentPtrs(m) = {}
             /\ FatedPtrs(m, "duplicate") \cap HeldPtrs(m) = {}
             /\ FatedPtrs(m, "duplicate") \cap AssembledPtrs(m) = {}
             /\ \A h \in Subs :
                    /\ handler[h].chunk # NoChunk
                    /\ handler[h].chunk.MessageID = m
                    /\ handler[h].chunk.ptr \in FatedPtrs(m, "duplicate")
                    => handler[h].pc = "drain"
             /\ \A c \in ConnIDs :
                    /\ SoleSubscriber(c, m)
                    /\ \A j, k \in FatedPtrs(m, "stored") :
                           arrivals[m][j].ChunkID = arrivals[m][k].ChunkID => j = k
                    => LET ids == ChunkIDsSent(c, m)
                       IN  \A j, k \in DOMAIN ids : ids[j] = ids[k] => j = k)

\* C7 witness: a fragment was ingested twice, the second time after its
\* sequence was sent, and the message was finalized afterwards
C7_DuplicateThenFinalized ==
    \E m \in Streaming : \E k \in FatedPtrs(m, "duplicate") :
        /\ \E p \in SentPtrs(m) : p < k /\ arrivals[m][p].ChunkID = arrivals[m][k].ChunkID
        /\ \E p \in AssembledPtrs(m) : p > k

\* the sequence numbers of the chunk events of m written to any stream
SentIDs(m) == {arrivals[m][p].ChunkID : p \in SentPtrs(m)}

C9_CompleteAfterFinal ==
    \A m \in Streaming : \A c \in present[m] : \A k \in DOMAIN sent[c] :
        /\ sent[c][k].Event = "message_complete"
        /\ sent[c][k].Data.message_id = m
        => \E j \in 1..(k - 1) :
               /\ sent[c][j].Event = "chunk"
               /\ sent[c][j].Data.MessageID = m
               /\ sent[c][j].Data.IsFinal

\* C10: a SendToSession call writes its event exactly once to every stream
\* that is registered for the session from the moment the call copies the
\* slice until it returns, whatever other streams are removed or added
\* meanwhile.
C10_EveryStreamOnce ==
    [][\A h \in Subs :
          handler[h].pc = "write" /\ handler'[h].pc # "write" =>
              LET w == Append(handler[h].wrote, ConnAt(handler[h], sessions))
              IN  \A c \in handler[h].during \cap connections' :
                      Cardinality({k \in DOMAIN w : w[k] = c}) = 1]_vars

\* C11: a fragment received on the broadcast subject for a session without
\* a stream on this instance is dropped before ingest: the step creates or
\* changes no buffer, starts no invocation and writes nothing.
C11_BroadcastFiltered ==
    [][\A m \in Streaming : \A seq \in 0..producer[m] :
          DeliverBroadcast(m, seq) /\ sessions[SessionOf(m)].len = 0
          => UNCHANGED <<buffers, handler, sent, arrivals, present, messages>>]_vars

\* C11 witness: a broadcast fragment was delivered and dropped, no buffer
\* was created for it
C11_BroadcastDropped ==
    /\ delivered > Len(arrivals["m1"]) + Len(arrivals["m2"])
    /\ \A m \in Messages : buffers[m] = NoBuffer /\ arrivals[m] = <<>>

\* the step is an iteration of h's range loop in SendToSession
LoopAdvanced(h) ==
    /\ handler[h].pc = "write"
    /\ handler'[h].pc # "write" \/ handler'[h].i = handler[h].i + 1

\* C14: when a write to one stream of the session fails during a
\* SendToSession call, the fan-out goes on: the loop moves to the next
\* element of its slice with the same event, the call ends only after the
\* last element, and every write of the call to a stream whose writes work
\* delivers the event.
C14_FailureDoesNotStopFanOut ==
    [][\A h \in Subs :
          LoopAdvanced(h) =>
              LET conn == ConnAt(handler[h], sessions)
              IN  /\ conn \notin wire.broken =>
                         sent'[conn] = Append(sent[conn], handler[h].event)
                  /\ handler[h].i < handler[h].conns.len =>
                         /\ handler'[h].pc = "write"
                         /\ handler'[h].i = handler[h].i + 1
                         /\ handler'[h].event = handler[h].event]_vars

\* C14 witness: the session slice is <<c, d>>, every write to c failed, and
\* d received a chunk event
C14_SiblingServed ==
    \E s \in Subscribed : \E c, d \in ConnIDs :
        /\ sessions[s].len = 2
        /\ sessions[s].arr[1] = c /\ sessions[s].arr[2] = d
        /\ c \in wire.failed /\ sent[c] = <<>>
        /\ d \notin wire.broken
        /\ \E k \in DOMAIN sent[d] : sent[d][k].Event = "chunk"

\* C17: the first event written to every stream is the connected event,
\* also when a fragment of the session is ingested while the stream is
\* being subscribed.
C17_ConnectedFirst ==
    \A c \in ConnIDs : sent[c] # <<>> => sent[c][1].Event = "connected"

\* HandleSSE of stream c is in its wait loop, registered without an error,
\* and none of its heartbeat calls has failed
LiveAndBeating(c) ==
    /\ http[c].pc = "open"
    /\ redis.call[c] = "registered"
    /\ redis.added[c] = 5
    /\ c \notin redis.missed

\* C12: while a stream is live and its directory heartbeats succeed, its
\* membership marker is present in the directory set of its session (the
\* heartbeat renews the TTL of the set, so the marker does not expire
\* before the stream is removed).
C12_MarkerStaysWhileLive ==
    \A c \in ConnIDs :
        LiveAndBeating(c) => c \in Members(redis.session[http[c].SessionID], now)

\* C13: once a subscribe handler has exited, its stream is in neither index
\* of the registry, and every directory entry whose removal command
\* succeeded is gone: the member of the session set, the field of the
\* instance hash and the liveness key (all three when no command failed).
C13_RemovedOnExit ==
    \A c \in ConnIDs :
        redis.call[c] = "deregistered" =>
            LET s == http[c].SessionID
            IN  /\ c \notin connections
                /\ \A k \in 1..sessions[s].len : sessions[s].arr[k] # c
                /\ redis.removed[c] >= 1 => c \notin Members(redis.session[s], now)
                /\ redis.removed[c] >= 2 => c \notin Members(redis.pod, now)
                /\ redis.removed[c] = 3 => ~Live(redis.heartbeat[c], now)

\* C13 witness: a stream whose five registration commands and three
\* removal commands succeeded has exited at the time of its registration
\* (no entry has expired), while another stream of the same session is
\* still registered in the directory
C13_ExitedWhileSiblingStays ==
    \E c, d \in ConnIDs :
        /\ c # d
        /\ redis.call[c] = "deregistered"
        /\ redis.added[c] = 5 /\ redis.removed[c] = 3
        /\ redis.beat[c] = now
        /\ LiveAndBeating(d)
        /\ http[d].SessionID = http[c].SessionID
        /\ d \in Members(redis.session[http[d].SessionID], now)
        /\ d \in Members(redis.pod, now)

Writers(c) ==
    {h \in Subs : handler[h].pc = "writing" /\ handler[h].conn = c}
        \cup (IF pinger.pc = "pinging" /\ pinger.conn = c THEN {"heartbeat"} ELSE {})

\* C16: writes to one stream are serialized: at no time are two writers
\* (the fan-out of an ingest invocation, of a second concurrent invocation,
\* the heartbeat ping) inside the frame write of the same stream.
C16_WritesSerialized ==
    \A c \in ConnIDs : Cardinality(Writers(c)) <= 1

\* the invocation of subscription h is inside a frame write that the
\* stream's slow client keeps from returning
BlockedOnSlowClient(h) ==
    handler[h].pc = "writing" /\ handler[h].conn \in wire.slow

\* the callback of subscription h can take the next fragment from the bus
CanIngest(h) ==
    IF h = "direct"
    THEN ENABLED (\E m \in Messages : \E seq \in 0..producer[m] : DeliverDirect(m, seq))
    ELSE ENABLED (\E m \in Streaming : \E seq \in 0..producer[m] :
                     DeliverBroadcast(m, seq))

\* C18: while a write to one stream is blocked by a slow client, ingest is
\* not blocked: a fragment (of another session or message) that the bus
\* holds for the subscription is taken and ingested.
C18_SlowClientDoesNotBlockIngest ==
    \A h \in Subs :
        BlockedOnSlowClient(h) /\ delivered < MaxDeliveries => CanIngest(h)

\* a submit as the contract wants it: POST with a body that decodes and
\* non-empty session_id, user_id and message
ValidSubmit(req) ==
    /\ req.path = "/api/chat" /\ req.method = "POST" /\ req.bodyOk
    /\ req.session_id # "" /\ req.user_id # "" /\ req.message # ""

\* the answer to the request served last
LastResponse(w) == w.responses[Len(w.responses)]

WrongMethod(req) ==
    IF req.path = "/api/chat" THEN req.method # "POST" ELSE req.method # "GET"

\* invalid client input: wrong method, malformed body, or a missing
\* required field or query parameter
Invalid(req) ==
    \/ WrongMethod(req)
    \/ IF req.path = "/api/chat"
       THEN ~req.bodyOk \/ req.session_id = "" \/ req.user_id = "" \/ req.message = ""
       ELSE req.session_id = "" \/ req.user_id = ""

\* nothing published, no stream added, nothing written to the directory
NoSideEffects ==
    /\ web'.published = web.published
    /\ UNCHANGED <<buffers, connections, sessions, http, sent, redis>>

\* C20 as stated: every request with invalid client input is answered 405
\* or 400 and has no side effects.
C20_InvalidAnswered4xx ==
    [][\A req \in Requests : \A ok \in BOOLEAN :
          Invalid(req) /\ ServeHTTP(req, ok) =>
              /\ LastResponse(web').status \in {400, 405}
              /\ NoSideEffects]_vars

\* C20 amended: a request with invalid client input has no side effects
\* and is answered 200 when its method is OPTIONS (the CORS preflight), 405
\* when its method is otherwise not the one of the path, and 400 when the
\* method is right and the body is malformed or a required field or query
\* parameter is missing.
C20_InvalidNoSideEffects ==
    [][\A req \in Requests : \A ok \in BOOLEAN :
          Invalid(req) /\ ServeHTTP(req, ok) =>
              /\ LastResponse(web').status =
                     IF req.method = "OPTIONS" THEN 200
                     ELSE IF WrongMethod(req) THEN 405 ELSE 400
              /\ NoSideEffects]_vars

\* C20 witness: with a stream registered in the directory, a submit without
\* user_id was answered 400 and a subscribe with the wrong method 405
C20_RejectedBesideStream ==
    /\ connections # {}
    /\ \E c \in ConnIDs : redis.call[c] = "registered" /\ redis.added[c] = 5
    /\ Len(web.responses) = 2 /\ web.published = <<>>
    /\ web.responses[1].status = 400
    /\ web.responses[1].req.path = "/api/chat"
    /\ web.responses[1].req.method = "POST"
    /\ web.responses[1].req.user_id = "" /\ web.responses[1].req.session_id # ""
    /\ web.responses[1].req.message # ""
    /\ web.responses[2].status = 405
    /\ web.responses[2].req.path = "/api/sse"

\* C21: when the bus publish of a submit fails, the handler answers 503,
\* does not publish again and does not return the accepted response.
C21_PublishFailureAnswered503 ==
    [][\A req \in Requests :
          ValidSubmit(req) /\ ServeHTTP(req, FALSE) =>
              /\ LastResponse(web').status = 503
              /\ web'.published = web.published
              /\ Len(web'.responses) = Len(web.responses) + 1]_vars

\* C30: a sweeper tick removes a buffer that has not seen is_final if and
\* only if its updated_at is older than max_buffer_age at that tick; the
\* sweeper's step removes exactly what Manager.cleanup selects, so an
\* incomplete buffer updated more recently is never removed by it.
C30_IncompleteEvictedByAge ==
    /\ [](\A m \in Messages :
             buffers[m] # NoBuffer /\ ~buffers[m].IsFinal =>
                 (cleanup(buffers, now)[m] = NoBuffer
                      <=> now - buffers[m].UpdatedAt > MaxBufferAge))
    /\ [][Sweep =>
             \A m \in Messages :
                 buffers[m] # NoBuffer /\ ~buffers[m].IsFinal =>
                     (buffers'[m] = NoBuffer
                          <=> now - buffers[m].UpdatedAt > MaxBufferAge)]_vars

\* C30 witness: a buffer that never saw is_final was removed (no Message
\* was made, so the sweeper removed it), and none was opened since
C30_StuckBufferEvicted ==
    \E m \in Streaming :
        /\ arrivals[m] # <<>>
        /\ \A k \in DOMAIN arrivals[m] :
              arrivals[m][k].ChunkID # producer[m] /\ arrivals[m][k].fate = "stored"
        /\ buffers[m] = NoBuffer
        /\ messages = <<>>

\* the messages that have a buffer
Held == {m \in Messages : buffers[m] # NoBuffer}

\* the fragments a buffer holds
Stored(buffer) == DOMAIN buffer.Chunks

\* the step ingested a fragment of m and AddChunk returned an error
Rejected(m) ==
    /\ Len(arrivals'[m]) = Len(arrivals[m]) + 1
    /\ arrivals'[m][Len(arrivals'[m])].fate = "rejected"

\* C27: when the manager holds max_buffers buffers and a fragment arrives
\* for a message that has no buffer, ingest rejects it with an error,
\* creates no buffer and changes no existing buffer; the number of buffers
\* never exceeds max_buffers.
C27_CapacityRejectsNewMessage ==
    /\ [](Cardinality(Held) <= MaxBuffersPerPod)
    /\ [][\A m \in Messages : \A seq \in 0..(MaxSeq + 1) :
             /\ DeliverMany(m, seq)
             /\ Cardinality(Held) = MaxBuffersPerPod
             /\ buffers[m] = NoBuffer
             => /\ Rejected(m)
                /\ buffers' = buffers
                /\ handler'["direct"].pc = "idle"]_vars

\* C27 witness: with max_buffers buffers held, the only fragment that ever
\* arrived for another message was rejected and that message has no buffer
C27_RejectedAtCapacity ==
    \E m \in Messages :
        /\ Cardinality(Held) = MaxBuffersPerPod
        /\ buffers[m] = NoBuffer
        /\ Len(arrivals[m]) = 1 /\ arrivals[m][1].fate = "rejected"

\* C28: when the manager holds max_buffers buffers, a fragment with a new
\* sequence whose message already has a buffer (with room left in it) is
\* admitted and stored.
C28_AdmittedAtCapacity ==
    [][\A m \in Messages : \A seq \in 0..(MaxSeq + 1) :
          /\ DeliverMany(m, seq)
          /\ Cardinality(Held) = MaxBuffersPerPod
          /\ buffers[m] # NoBuffer
          /\ seq \notin Stored(buffers[m])
          /\ Cardinality(Stored(buffers[m])) < MaxChunksPerBuffer
          => /\ ~Rejected(m)
             /\ buffers'[m] # NoBuffer /\ seq \in Stored(buffers'[m])]_vars

\* C29: a buffer never holds more than max_chunks_per_buffer fragments: a
\* fragment with a new sequence that arrives when the buffer holds
\* max_chunks_per_buffer fragments is rejected with an error and the buffer
\* (its fragments, max_seen, final_seen, final_seq) is unchanged.
C29_ChunkCapRejects ==
    /\ [](\A m \in Held : Cardinality(Stored(buffers[m])) <= MaxChunksPerBuffer)
    /\ [][\A m \in Messages : \A seq \in 0..(MaxSeq + 1) :
             /\ DeliverMany(m, seq)
             /\ buffers[m] # NoBuffer
             /\ Cardinality(Stored(buffers[m])) = MaxChunksPerBuffer
             /\ seq \notin Stored(buffers[m])
             => /\ Rejected(m)
                /\ buffers' = buffers
                /\ handler'["direct"].pc = "idle"]_vars

\* C29 witness: a buffer holds max_chunks_per_buffer fragments, the pod is
\* below max_buffers, and the last fragment of the message, of a sequence
\* the buffer does not hold, was rejected
C29_RejectedAtChunkCap ==
    \E m \in Held :
        /\ Cardinality(Held) < MaxBuffersPerPod
        /\ Cardinality(Stored(buffers[m])) = MaxChunksPerBuffer
        /\ arrivals[m][Len(arrivals[m])].fate = "rejected"
        /\ arrivals[m][Len(arrivals[m])].ChunkID \notin Stored(buffers[m])

\* a fragment of some message other than m was rejected earlier
FailedBefore(m) ==
    \E m0 \in Messages \ {m} : \E k \in DOMAIN arrivals[m0] :
        arrivals[m0][k].fate = "rejected"

\* C22: a failure that concerns one fragment (a payload that does not
\* decode, a capacity rejection, a chunk-cap rejection, a finalize error)
\* ends only that invocation of the callback and leaves the buffers of the
\* other messages unchanged, and a fragment of another message that arrives
\* afterwards for a buffer with room in it is still ingested.
C22_FailureIsolated ==
    [][/\ DeliverUndecodable =>
             buffers' = buffers /\ handler'["direct"].pc = "idle"
       /\ \A h \in Subs :
             handler[h].pc = "finalize" /\ handler'[h].pc = "idle" =>
                 \A m \in Messages \ {handler[h].chunk.MessageID} :
                     buffers'[m] = buffers[m]
       /\ \A m \in Messages : \A seq \in 0..(MaxSeq + 1) :
             DeliverMany(m, seq) =>
                 /\ Rejected(m) =>
                        /\ \A m2 \in Messages \ {m} : buffers'[m2] = buffers[m2]
                        /\ handler'["direct"].pc = "idle"
                 /\ /\ FailedBefore(m)
                    /\ buffers[m] # NoBuffer
                    /\ Cardinality(Stored(buffers[m])) < MaxChunksPerBuffer
                    => ~Rejected(m)]_vars

\* C23: active_buffers of /health is the number of messages that have a
\* buffer; a buffer comes into being only in the step that ingests a
\* fragment of its message, and the step that finalizes a message, or the
\* sweeper's step that evicts it, removes its buffer: with no further
\* fragment of the message the count is back where it was before the
\* message's first fragment.
C23_ActiveBuffersBackToBaseline ==
    /\ [](HandleHealth.active_buffers = Cardinality(Held))
    /\ [][/\ \A m \in Messages :
                buffers[m] = NoBuffer /\ buffers'[m] # NoBuffer =>
                    Len(arrivals'[m]) = Len(arrivals[m]) + 1
          /\ \A h \in Subs :
                handler[h].pc = "finalize" /\ handler'[h].pc # "finalize" =>
                    /\ buffers'[handler[h].chunk.MessageID] = NoBuffer
                    /\ Cardinality(Held') =
                          Cardinality(Held \ {handler[h].chunk.MessageID})
          /\ Sweep =>
                /\ \A m \in Held :
                      buffers[m].IsFinal \/ now - buffers[m].UpdatedAt > MaxBufferAge
                          => buffers'[m] = NoBuffer
                /\ Held' \subseteq Held]_vars

\* C23 witness: a message was finalized and its buffer is gone while the
\* buffer of another message is held, and /health reports one buffer
C23_FinalizedBesideHeld ==
    /\ messages # <<>>
    /\ \A k \in DOMAIN messages : buffers[messages[k].message.MessageID] = NoBuffer
    /\ Cardinality(Held) = 1
    /\ HandleHealth.active_buffers = 1

\* the order of teardown of the contract
TeardownOrder ==
    <<"stop http", "drain bus", "stop sweeper", "close directory", "close bus">>

\* C24: on SIGINT/SIGTERM the teardown steps happen in this order: the HTTP
\* acceptor is stopped, then the bus is drained, then the sweeper is
\* stopped, then the directory client is closed, then the bus connection is
\* closed (the steps taken so far are always a prefix of that order).
C24_TeardownInOrder ==
    /\ Len(main.done) <= Len(TeardownOrder)
    /\ \A k \in DOMAIN main.done : main.done[k] = TeardownOrder[k]

\* every directory command the instance issued succeeded
DirectoryHealthy ==
    \A c \in ConnIDs :
        /\ redis.call[c] # "none" => redis.added[c] = 5
        /\ redis.call[c] = "deregistered" => redis.removed[c] = 3

\* C25: after a graceful drain none of the instance's directory entries
\* remain (membership markers, instance map fields, liveness keys), without
\* waiting for a TTL to expire.
C25_NoEntriesAfterDrain ==
    main.pc = "exited" /\ DirectoryHealthy =>
        \A c \in ConnIDs :
            /\ \A s \in Sessions : redis.session[s].members = {}
            /\ redis.pod.members = {}
            /\ redis.heartbeat[c].members = {}

\* the position of the last ':' of a marker
LastColon(member) ==
    CHOOSE k \in DOMAIN member :
        member[k] = ":" /\ \A j \in DOMAIN member : j > k => member[j] # ":"

\* the instance id of a marker: the part before its last ':'
Owner(member) == SubSeq(member, 1, LastColon(member) - 1)

\* C26: active_instances(session) returns exactly the set of distinct
\* instance ids that own a marker of the session's set, the instance id
\* being the part of the marker before its last ':' whatever the length of
\* the stream id.
C26_ActiveInstancesExact ==
    [][GetActivePods =>
          /\ ~lookup'.panicked
          /\ lookup'.pods = {Owner(member) : member \in lookup.members}]_vars

\* the call of GetNextChunks by invocation h finds the buffer of its message
Drains(h) ==
    /\ Drain(h)
    /\ buffers[handler[h].chunk.MessageID] # NoBuffer

\* C31: drain returns, starting at next_to_emit, the maximal run of
\* consecutive sequences present in the buffer, stopping after the is_final
\* fragment, and advances next_to_emit past them; it reports is_complete
\* exactly when is_final has been seen and every sequence in [0, final_seq]
\* has been returned by this or an earlier drain.
C31_DrainReturnsRun ==
    [][\A h \in Subs : Drains(h) =>
          LET m == handler[h].chunk.MessageID
              buffer == buffers[m]
              from == buffer.NextToSend
              to == buffers'[m].NextToSend
              out == handler'[h].chunksToSend
          IN  /\ Len(out) = to - from
              /\ \A k \in 1..Len(out) :
                    /\ from + k - 1 \in DOMAIN buffer.Chunks
                    /\ out[k] = buffer.Chunks[from + k - 1]
                    /\ out[k].IsFinal => k = Len(out)
              /\ \/ to \notin DOMAIN buffer.Chunks
                 \/ out # <<>> /\ out[Len(out)].IsFinal
              /\ buffers'[m] = [buffer EXCEPT !.NextToSend = to]
              /\ handler'[h].isComplete <=>
                    /\ buffer.IsFinal
                    /\ \A i \in 0..buffer.FinalChunkID : i < to]_vars

\* a drain returned two fragments the second of which is the final one, and
\* reported completion
C31_RunEndsAtFinal ==
    \E h \in Subs :
        /\ handler[h].pc = "send"
        /\ handler[h].event.Event = "chunk"
        /\ Len(handler[h].chunksToSend) = 2
        /\ handler[h].chunksToSend[2].IsFinal
        /\ handler[h].isComplete
        /\ buffers[handler[h].chunk.MessageID] # NoBuffer
        /\ buffers[handler[h].chunk.MessageID].NextToSend = 2

\* FinalizeMessage of this buffer returns an error: there is none, it has not
\* seen is_final, or a sequence of [0, final_seq] is missing
Unfinished(buffer) ==
    \/ buffer = NoBuffer
    \/ ~buffer.IsFinal
    \/ \E i \in 0..buffer.FinalChunkID : i \notin DOMAIN buffer.Chunks

\* C32: finalize returns an error when the buffer has not seen is_final or
\* when a sequence in [0, final_seq] is missing (no Message is returned and
\* the invocation ends), and in every case, success or error, the buffer is
\* removed from the manager, so that a second finalize of the same message
\* id finds no buffer.
C32_FinalizeAlwaysRemoves ==
    [][\A h \in Subs : Finalize(h) =>
          LET m == handler[h].chunk.MessageID
          IN  /\ buffers'[m] = NoBuffer
              /\ Unfinished(buffers'[m])
              /\ IF Unfinished(buffers[m])
                 THEN messages' = messages /\ handler'[h] = Idle
                 ELSE /\ Len(messages') = Len(messages) + 1
                      /\ messages'[Len(messages')].message.MessageID = m
                      /\ handler'[h].pc = "send"]_vars

\* a finalize found a buffer that had not seen is_final, returned its error
\* and removed the buffer: the fragments 0 and 1 (final) of m1 were drained,
\* the sweeper took the buffer, fragment 0 came again into a new buffer and
\* was drained, and the invocation that had seen the first buffer complete
\* finalized the new one
C32_UnfinishedRemoved ==
    /\ producer["m1"] = 1
    /\ Len(arrivals["m1"]) = 3
    /\ \A k \in 1..3 : arrivals["m1"][k].fate = "stored"
    /\ arrivals["m1"][3].ChunkID = 0
    /\ Len(ChunkIDsSent(1, "m1")) = 3
    /\ buffers["m1"] = NoBuffer
    /\ messages = <<>>
    /\ \A h \in Subs : handler[h] = Idle

\* the sequences of [0, final_seq] under which the buffer holds a content
\* fragment
ContentIDs(buffer) ==
    {i \in DOMAIN buffer.Chunks :
        i <= buffer.FinalChunkID /\ buffer.Chunks[i].ChunkType = "content"}

\* the payloads of the fragments ids of the buffer, in ascending order
RECURSIVE Ascending(_, _)
Ascending(buffer, ids) ==
    IF ids = {} THEN <<>>
    ELSE LET first == CHOOSE i \in ids : \A j \in ids : i <= j
         IN  buffer.Chunks[first].Chunk \o Ascending(buffer, ids \ {first})

\* C33: the content of a finalized Message is the concatenation, in ascending
\* sequence order over [0, final_seq], of the payloads of exactly the
\* fragments whose type is content; the payloads of metadata, error and
\* system fragments and of fragments above final_seq are not part of it.
C33_ContentOfContentFragments ==
    [][\A h \in Subs : Finalize(h) /\ ~Unfinished(buffers[handler[h].chunk.MessageID]) =>
          LET buffer == buffers[handler[h].chunk.MessageID]
          IN  messages'[Len(messages')].message.Content =
                  Ascending(buffer, ContentIDs(buffer))]_vars

\* a Message was finalized from three fragments 0, 1, 2 (final) of which
\* only the first and the last were content
C33_MetadataLeftOut ==
    /\ producer["m1"] = 2
    /\ Len(messages) = 1
    /\ messages[1].message.Content = Payload(0) \o Payload(2)

\* the text of the fragment DeliverTyped hands to AddChunk
TextOf(seq, retold) == IF retold THEN OtherPayload(seq) ELSE Payload(seq)

\* the buffer of m holds a fragment of this sequence with another text
HoldsOtherText(m, seq, retold) ==
    /\ buffers[m] # NoBuffer
    /\ seq \in DOMAIN buffers[m].Chunks
    /\ buffers[m].Chunks[seq].Chunk # TextOf(seq, retold)

\* C34: when a fragment arrives with the message id and sequence of a stored
\* fragment but a different payload, ingest returns success and keeps the
\* first fragment: the stored payload, max_seen, final_seen, final_seq and
\* updated_at are unchanged.
C34_FirstPayloadWins ==
    [][\A m \in Messages : \A seq \in 0..(MaxSeq + 1) :
       \A type \in ChunkTypes : \A retold \in BOOLEAN :
          DeliverTyped(m, seq, type, retold) /\ HoldsOtherText(m, seq, retold) =>
              /\ arrivals'[m][Len(arrivals'[m])].fate = "duplicate"
              /\ handler'["direct"].pc = "drain"
              /\ buffers' = buffers]_vars

\* C35: in every reachable state of a reorder buffer, after any sequence of
\* ingest and drain operations, next_to_emit <= max_seen + 1.
C35_NextToEmitBounded ==
    \A m \in Messages :
        buffers[m] # NoBuffer => buffers[m].NextToSend <= buffers[m].MaxChunkID + 1

\* a buffer was drained up to its largest sequence, which is not 0, and
\* waits for the next one
C35_DrainedToMaxSeen ==
    \E m \in Messages :
        /\ buffers[m] # NoBuffer
        /\ ~buffers[m].IsFinal
        /\ buffers[m].MaxChunkID = 1
        /\ buffers[m].NextToSend = 2

\* C36: in every reachable state of a reorder buffer the fragments with a
\* sequence below next_to_emit are absent from the buffer's map: a fragment
\* is released from the map once drain has emitted it.
C36_EmittedReleased ==
    \A m \in Messages :
        buffers[m] # NoBuffer =>
            \A i \in DOMAIN buffers[m].Chunks : i >= buffers[m].NextToSend

\* the method holds the lock of some buffer
HoldsInner(op) ==
    \E m \in Locked : locks.buf[m].w = op \/ op \in locks.buf[m].r

\* the method is in a call of Lock or RLock on Manager.mu
AtOuter(op) == Instr(op) \in {"Lock mu", "RLock mu"}

\* some method has been called and has not returned
Busy == \E op \in LockOps : locks.task[op].pc # 0

\* C37: the two-level locking of the manager never deadlocks: with ingest,
\* drain, finalize, state and the sweeper running concurrently on any
\* buffers, no task ever waits for the outer (map) lock while it holds a
\* buffer's inner lock, some task can always go on while one is running,
\* and every operation eventually returns.
C37_NoDeadlock ==
    /\ [](\A op \in LockOps : AtOuter(op) => ~HoldsInner(op))
    /\ [](Busy => ENABLED (\E op \in LockOps : Proceed(op)))
    /\ \A op \in LockOps : (locks.task[op].pc # 0) ~> (locks.task[op].pc = 0)

\* AddChunk holds the map lock and waits for the lock of a buffer that
\* GetNextChunks holds, while FinalizeMessage and GetState wait for the map
\* lock
C37_WaitsForInnerUnderOuter ==
    /\ locks.mu.w = "AddChunk"
    /\ Instr("AddChunk") = "Lock buf"
    /\ locks.buf[locks.task["AddChunk"].m].w = "GetNextChunks"
    /\ Instr("FinalizeMessage") = "Lock mu"
    /\ Instr("GetState") = "RLock mu"

\* the positions of stream c in the list of session s
PositionsOf(c, s) == {k \in 1..sessions[s].len : sessions[s].arr[k] = c}

\* C38: in every reachable state of the stream registry the two indices
\* agree: each stream of the stream-id index appears exactly once in the list
\* of its session and nowhere else, each stream of a session list is in the
\* stream-id index, and no session has an empty list, so that active_sessions
\* is the number of sessions with at least one stream.
C38_IndicesAgree ==
    /\ \A c \in connections : \A s \in Sessions :
          Cardinality(PositionsOf(c, s)) = IF s = http[c].SessionID THEN 1 ELSE 0
    /\ \A s \in Sessions : \A k \in 1..sessions[s].len :
          sessions[s].arr[k] \in connections
    /\ \A s \in Sessions : sessions[s].len = 0 => sessions[s] = NilSlice
    /\ HandleHealth.active_sessions =
          Cardinality({s \in Sessions : \E c \in connections : http[c].SessionID = s})

\* two streams were registered, one in each session, and the stream of s1
\* was removed: the entry of s1 is gone and s2 keeps its stream
C38_EmptiedSessionDeleted ==
    /\ connections = {2}
    /\ http[1] = [pc |-> "closed", SessionID |-> "s1"]
    /\ http[2].SessionID = "s2"
    /\ sessions["s1"] = NilSlice
    /\ sessions["s2"].len = 1

\* no invocation of HandleResponseChunk is at work on message m
Settled(m) ==
    \A h \in Subs : handler[h].chunk = NoChunk \/ handler[h].chunk.MessageID # m

\* the buffer holds the fragment drain would emit next
EmitReady(buffer) == buffer.NextToSend \in DOMAIN buffer.Chunks

\* C39: after every completed ingest-loop step for a message, the buffer (if
\* it still exists) has no emit-ready fragment left: the fragment at
\* sequence next_to_emit is absent, the contiguous prefix present in the
\* buffer has been emitted in full by the step that made it contiguous.
C39_NothingReadyLeft ==
    \A m \in Messages :
        Settled(m) /\ buffers[m] # NoBuffer => ~EmitReady(buffers[m])

\* the fragments 1, 3 and then 0 of m1 were ingested; the step of fragment 0
\* emitted 0 and 1 and is completed, the buffer waits for fragment 2
C39_PrefixEmittedGapLeft ==
    /\ Settled("m1")
    /\ buffers["m1"] # NoBuffer
    /\ DOMAIN buffers["m1"].Chunks = {0, 1, 3}
    /\ buffers["m1"].NextToSend = 2
    /\ ArrivedIDs("m1") = <<1, 3, 0>>

\* the sequences of m that an invocation has drained and not yet fanned out
PendingIDs(m) ==
    UNION {{handler[h].chunksToSend[k].ChunkID : k \in DOMAIN handler[h].chunksToSend} :
              h \in {g \in Subs : handler[g].chunk # NoChunk
                                     /\ handler[g].chunk.MessageID = m}}

\* stream c is registered, sequence i of m has been drained and fanned out,
\* and c has not received it
Missed(c, m, i) ==
    /\ c \in connections
    /\ http[c].SessionID = SessionOf(m)
    /\ buffers[m] # NoBuffer
    /\ i < buffers[m].NextToSend
    /\ i \notin PendingIDs(m)
    /\ \A k \in DOMAIN ChunkIDsSent(c, m) : ChunkIDsSent(c, m)[k] # i

====
